---- MODULE Spec2Model ----
(***************************************************************************)
(* gentoolkit.services: the process pool (pool.py) with its services and   *)
(* instances (service.py), as a state machine.                             *)
(*                                                                         *)
(* The pool process runs one main thread.  Its position is pc:             *)
(*   "init"    Pool constructed, services being attached                   *)
(*   "start"   inside the loop of Pool.start, before Service.start          *)
(*   "append"  inside the loop of Pool.start, Service.start has returned   *)
(*             an instance that is not yet appended to Pool.__instances    *)
(*   "serve"   serve_blocking / serve_with_report, at the test of          *)
(*             "while not self.__stopped"                                  *)
(*   "enter"   the test has passed, the blocking call is not yet made      *)
(*   "wait"    blocked in signal.pause() or in outgoing_sock.accept()      *)
(*   "idle"    Pool.start / Pool.serve_with_report has returned            *)
(*   "stopping" a program that uses a Service without a pool is inside      *)
(*             Instance.stop, between is_running() and os.kill              *)
(* Signal handlers (Pool.signal_handler) run between two steps of the main *)
(* thread; one handler invocation is one step, and it ends a blocking call *)
(* of the main thread.  Worker processes are the environment: they exit or *)
(* are killed at any time.                                                 *)
(*                                                                         *)
(* The report of one worker travels from Context.__send_report to          *)
(* Pool.collect_reports over a connection.  The pool's side is phase:      *)
(*   "off"       no report is under way                                    *)
(*   "wait"      Instance.report() has signalled the worker, the pool is   *)
(*               in incoming_sock.accept() or in client.recv()             *)
(*   "stored"    json.loads went through, the entry is in the report       *)
(*   "failed"    json.loads raised, collect_reports gave up                *)
(*   "timeout"   accept timed out, the instance has no entry               *)
(* and the worker's side is conn:                                          *)
(*   "none"      the worker has not handled the SIGUSR1                    *)
(*   "unsent"    the worker could not build its message or not connect     *)
(*   "open"      the worker is connected and sends                         *)
(*   "closed"    __send_report has closed the connection                   *)
(*   "killed"    the worker died while it was sending                      *)
(***************************************************************************)
EXTENDS Integers, Sequences, FiniteSets, TLC

\* ---------------------------------------------------------------- bounds
\* process ids the operating system hands out: 1 .. MaxPid, never reused
MaxPid == 2
\* largest instance count given to Pool.attach
MaxMultiply == 2
\* calls of Pool.start (directly or through serve_with_report)
MaxStarts == 1
\* clients served by serve_with_report
MaxCollects == 1
\* nesting depth of the value handler.report() returns
MaxDepth == 1
\* length of a list, tuple or dict inside that value
MaxLen == 1
\* tokens one send or one recv moves at most
MaxChunk == 3

\* ------------------------------------------------------ program constants
\* Python's None, as the value of Instance.pid and Instance.exit_code
None == -1
CALLBACK_STATE_STARTED == 1
CALLBACK_STATE_STOPPED == 2
\* for i in range(3) of Instance.start, for i in range(10) of Instance.stop
StartPolls == 3
StopPolls == 10

\* the services of the program: serviceA built without a report address,
\* serviceB with one (tests/test_pool.py)
Services == {"A", "B"}
\* the order in which the program attaches them
AttachOrder == <<"A", "B">>

Pids == 1 .. MaxPid
Zombies == {"z0", "z1", "zs"}

\* how a freshly forked worker behaves while Instance.start polls it
Outcomes == {"ok", "forkfail", "die"}
\* how a running worker reacts to SIGTERM while Instance.stop polls it
Reactions == {"exit", "ignore"}

\* what os.kill(pid, SIGTERM) meets besides a missing process
KillErrors == {"none", "EPERM"}

\* the instance count of a service in the programs that serve clients, that
\* restart the pool, or that are checked for a signal handler entered while
\* it runs
MaxFew == 1

VARIABLES
    pc,             \* position of the pool's main thread
    config_report,  \* "report" in Pool.config
    pool_services,  \* Pool.__services: sequence of [service, multiply]
    pool_instances, \* Pool.__instances: sequence of instance ids
    stopped,        \* Pool.__stopped
    started_with,   \* how Pool.start was called: "start" by the program,
                    \* "serve" by serve_with_report, "block" by serve_blocking
    si,             \* Pool.start: index of the service in the outer loop
    k,              \* Pool.start: instances of that service started so far
    pending,        \* Pool.start: the instance Service.start returned
    starts,         \* number of calls of Pool.start so far
    report_addr,    \* Service.__report_addr is set, per service
    seq_number,     \* Service.__seq_number, per service
    svc_instances,  \* Service.__instances, per service: sequence of ids
    inst,           \* the Instance objects, by id (order of construction)
    proc,           \* the operating system's process table, by pid
    next_pid,       \* the pid the next fork returns
    usr1,           \* SIGUSR1 signals delivered, by pid
    sigchld,        \* a SIGCHLD is pending for the pool process
    collects,       \* clients served so far
    doc,            \* the document the last client received
    last,           \* the last operation, what it returned and what it called
    phase,          \* position of collect_reports for the report under way
    conn,           \* the worker's end of the connection
    handler_report, \* the value handler.report() returned
    payload,        \* the dict Context.__send_report serializes
    msg,            \* Context.__send_report: the tokens not yet sent
    wire,           \* the tokens sent and not yet received
    report_data,    \* Pool.collect_reports: the tokens received so far
    entry,          \* report['instances'][instance.name]
    ctx,            \* the worker's Context: __stopped, whether handler.stop()
                    \* was called, where the process is, its exit code,
                    \* and what happened to it last
    dpc,            \* position of the process that controls the daemon
    dpolls,         \* Daemon.start: polls still to make
    dpid,           \* Daemon.stop: the local pid
    pidfile,        \* the pid file: 0 when absent, else the pid it holds
    dchild,         \* the daemon processes that have not written their pid
    dterm           \* daemon processes with a SIGTERM pending

pool_vars == <<pc, config_report, pool_services, pool_instances, stopped,
               started_with, si, k, pending, starts, report_addr, seq_number,
               svc_instances, inst, proc, next_pid, usr1, sigchld, collects,
               doc, last>>

chan_vars == <<phase, conn, handler_report, payload, msg, wire, report_data,
               entry, ctx>>

daemon_vars == <<dpc, dpolls, dpid, pidfile, dchild, dterm>>

vars == <<pool_vars, chan_vars, daemon_vars>>

\* ------------------------------------------------------------- helpers
Range(s) == {s[x] : x \in 1 .. Len(s)}

Count(s, e) == Cardinality({x \in 1 .. Len(s) : s[x] = e})

\* list.remove(e): the first occurrence goes, ValueError when there is none
ListRemove(s, e) ==
    IF e \notin Range(s) THEN s
    ELSE LET first == CHOOSE x \in 1 .. Len(s) :
                          s[x] = e /\ \A y \in 1 .. x - 1 : s[y] # e
         IN  [x \in 1 .. Len(s) - 1 |-> IF x < first THEN s[x] ELSE s[x + 1]]

\* what an operation logs about the calls it made (history, read by the
\* properties only)
NoLog ==
    [op |-> "none", ret |-> FALSE,
     started |-> {}, forked |-> {}, alive |-> {},
     stop_called |-> {}, stop_true |-> {},
     report_called |-> {}, report_true |-> {}, timed_out |-> {},
     incoming_sock |-> "unbound", raised |-> FALSE,
     handler |-> "none", requested |-> 0, handler_stop |-> FALSE,
     stop_signals |-> <<>>, kill_error |-> "none", interrupted |-> 0,
     unparsable |-> 0, client |-> "none", client_got |-> <<>>,
     late |-> {}, backlog |-> <<>>]

\* The part of the state the methods of Instance, Service and Pool work on.
M ==
    [inst |-> inst, svc_instances |-> svc_instances, proc |-> proc,
     next_pid |-> next_pid, usr1 |-> usr1, sigchld |-> sigchld,
     stopped |-> stopped, pool_instances |-> pool_instances,
     ret |-> FALSE, log |-> NoLog]

\* ------------------------------------------------------------ Instance
\* os.WEXITSTATUS when os.WIFEXITED, else None
ExitCodeOf(z) ==
    CASE z = "z0" -> 0
      [] z = "z1" -> 1
      [] OTHER -> None

\* the codes a handler asks for with SystemExit(N)
ExitCodes == {0, 2}

\* How a worker leaves handler.start(): the call returns, raises an error,
\* raises SystemExit(code), or the process is killed by a signal inside it;
\* stop says what handler.stop() does when Context.start calls it.
Endings ==
    {[start |-> "return", code |-> 0, stop |-> "return"],
     [start |-> "killed", code |-> 0, stop |-> "return"]} \cup
    {[start |-> "raise", code |-> 0, stop |-> t] : t \in {"return", "raise"}} \cup
    {[start |-> "exit", code |-> n, stop |-> "return"] : n \in ExitCodes}

\* variant: the except clause of Context.start keeps the exit code 0
ContextStart_ExitZero(h) ==
    IF h.start = "return"
    THEN [exited |-> TRUE, exit_code |-> 0, stop_called |-> FALSE]
    ELSE IF h.stop = "raise"
    THEN [exited |-> FALSE, exit_code |-> 0, stop_called |-> TRUE]
    ELSE [exited |-> TRUE, exit_code |-> 0, stop_called |-> TRUE]

\* Context.start in the worker: handler.start() inside try/except.  The bare
\* except catches every exception, SystemExit too: handler.stop() is called
\* and the exit code is 1.  exited says whether os._exit was reached; it is
\* not when handler.stop() raises inside the except clause.
ContextStart(h) ==
    IF h.start = "return"
    THEN [exited |-> TRUE, exit_code |-> 0, stop_called |-> FALSE]
    ELSE IF h.stop = "raise"
    THEN [exited |-> FALSE, exit_code |-> 0, stop_called |-> TRUE]
    ELSE [exited |-> TRUE, exit_code |-> 1, stop_called |-> TRUE]

\* Instance.start, the child's side: the exit code of the worker.  What leaves
\* Context.start is an Exception of handler.stop(), exit code 1.
ChildExitCode(h) ==
    LET c == ContextStart(h) IN
    IF c.exited THEN c.exit_code ELSE 1

\* the wait status the parent finds for a worker that ended with h
WaitStatus(h) ==
    IF h.start = "killed" THEN "zs"
    ELSE IF ChildExitCode(h) = 0 THEN "z0" ELSE "z1"

\* Instance.is_running: kill(pid, 0), then waitpid(pid, WNOHANG)
IsRunning(m, i) ==
    LET pid == m.inst[i].pid IN
    IF pid # 0 /\ pid # None
    THEN CASE m.proc[pid] = "run" -> [m EXCEPT !.ret = TRUE]
           [] m.proc[pid] \in Zombies ->
                [m EXCEPT !.proc[pid] = "gone",
                          !.inst[i].exit_code = ExitCodeOf(m.proc[pid]),
                          !.ret = FALSE]
           [] OTHER -> [m EXCEPT !.ret = FALSE]
    ELSE [m EXCEPT !.ret = FALSE]

\* Service.__callback
Callback(m, state, i) ==
    LET s == m.inst[i].service IN
    IF state = CALLBACK_STATE_STARTED
    THEN [m EXCEPT !.svc_instances[s] = Append(@, i)]
    ELSE IF state = CALLBACK_STATE_STOPPED
    THEN [m EXCEPT !.svc_instances[s] = ListRemove(@, i)]
    ELSE m

\* variant: the started-callback is made before the first poll
RECURSIVE StartPoll_CallbackFirst(_, _, _)
StartPoll_CallbackFirst(m, i, n) ==
    IF n = 0 THEN [Callback(m, CALLBACK_STATE_STARTED, i) EXCEPT !.ret = FALSE]
    ELSE LET m1 == IsRunning(m, i) IN
         IF m1.ret
         THEN [Callback(m1, CALLBACK_STATE_STARTED, i) EXCEPT
                   !.ret = TRUE, !.log.alive = @ \cup {i}]
         ELSE StartPoll_CallbackFirst(m1, i, n - 1)

\* the polling loop of Instance.start in the parent
RECURSIVE StartPoll(_, _, _)
StartPoll(m, i, n) ==
    IF n = 0 THEN [m EXCEPT !.ret = FALSE]
    ELSE LET m1 == IsRunning(m, i) IN
         IF m1.ret
         THEN [Callback(m1, CALLBACK_STATE_STARTED, i) EXCEPT
                   !.ret = TRUE, !.log.alive = @ \cup {i}]
         ELSE StartPoll(m1, i, n - 1)

\* Instance.start, the parent's side.  o says what the fork and the child do:
\* the fork fails, the child runs, or the child is dead (handler.start() raised,
\* exit code 1) before the first poll.
InstanceStart(m, i, o) ==
    LET m0 == [m EXCEPT !.log.started = @ \cup {i}] IN
    IF o = "forkfail" \/ m.next_pid \notin DOMAIN m.proc
    THEN [m0 EXCEPT !.ret = FALSE]
    ELSE LET pid == m.next_pid
             m1 == [m0 EXCEPT
                       !.next_pid = pid + 1,
                       !.inst[i].pid = pid,
                       !.proc[pid] = IF o = "ok" THEN "run" ELSE "z1",
                       !.sigchld = IF o = "ok" THEN @ ELSE TRUE,
                       !.log.forked = @ \cup {i}]
         IN  StartPoll(m1, i, StartPolls)

\* variant: a worker that is still alive after the last poll is killed
RECURSIVE StopPoll_KillAtEnd(_, _, _)
StopPoll_KillAtEnd(m, i, n) ==
    IF n = 0
    THEN [m EXCEPT !.ret = FALSE,
                   !.proc[m.inst[i].pid] = "zs",
                   !.log.stop_signals =
                       Append(@, [pid |-> m.inst[i].pid, sig |-> "SIGKILL"])]
    ELSE LET m1 == IsRunning(m, i) IN
         IF ~ m1.ret
         THEN [Callback([m1 EXCEPT !.inst[i].pid = None],
                        CALLBACK_STATE_STOPPED, i) EXCEPT
                   !.ret = TRUE, !.log.stop_true = @ \cup {i}]
         ELSE StopPoll_KillAtEnd(m1, i, n - 1)

\* the polling loop of Instance.stop after the SIGTERM was sent
RECURSIVE StopPoll(_, _, _)
StopPoll(m, i, n) ==
    IF n = 0 THEN [m EXCEPT !.ret = FALSE]
    ELSE LET m1 == IsRunning(m, i) IN
         IF ~ m1.ret
         THEN [Callback([m1 EXCEPT !.inst[i].pid = None],
                        CALLBACK_STATE_STOPPED, i) EXCEPT
                   !.ret = TRUE, !.log.stop_true = @ \cup {i}]
         ELSE StopPoll(m1, i, n - 1)

\* Instance.stop from os.kill(self.pid, SIGTERM) on.  The kill raises ESRCH
\* when the process is gone (dead and reaped) and the error e when one is
\* given; both end the call with False.  A worker that gets the signal
\* reacts with r.
StopKill(m, i, r, e) ==
    LET pid == m.inst[i].pid IN
    IF m.proc[pid] \notin {"run"} \cup Zombies
    THEN [m EXCEPT !.ret = FALSE, !.log.kill_error = "ESRCH"]
    ELSE IF e # "none"
    THEN [m EXCEPT !.ret = FALSE, !.log.kill_error = e]
    ELSE LET m2 == [m EXCEPT
                       !.log.stop_signals =
                           Append(@, [pid |-> pid, sig |-> "SIGTERM"]),
                       !.proc[pid] = IF r = "exit" /\ @ = "run"
                                     THEN "z0" ELSE @]
         IN  StopPoll(m2, i, StopPolls)

\* Instance.stop.  r says whether the worker leaves handler.start() (and
\* exits with code 0) before the last poll, or is still alive after it.
\* The SIGCHLD of a worker that exits here is handled while stop() polls:
\* Pool.stop has set the stopped flag, so that handler invocation does nothing
\* and no SIGCHLD is left pending.
InstanceStop(m, i, r) ==
    LET m0 == [m EXCEPT !.log.stop_called = @ \cup {i}]
        m1 == IsRunning(m0, i)
    IN  IF ~ m1.ret
        THEN [Callback([m1 EXCEPT !.inst[i].pid = None],
                       CALLBACK_STATE_STOPPED, i) EXCEPT
                  !.ret = TRUE, !.log.stop_true = @ \cup {i}]
        ELSE StopKill(m1, i, r, "none")

\* variant: the count goes up on every call made to a running instance
InstanceReport_CountsCalls(m, i) ==
    LET m0 == [m EXCEPT !.log.report_called = @ \cup {i}]
        m1 == IsRunning(m0, i)
    IN  IF ~ m1.ret THEN [m1 EXCEPT !.ret = FALSE]
        ELSE IF ~ m1.inst[i].report_addr
        THEN [m1 EXCEPT !.inst[i].reported_count = @ + 1, !.ret = FALSE]
        ELSE [m1 EXCEPT !.usr1[m1.inst[i].pid] = @ + 1,
                        !.inst[i].reported_count = @ + 1,
                        !.ret = TRUE,
                        !.log.report_true = @ \cup {i}]

\* Instance.report
InstanceReport(m, i) ==
    LET m0 == [m EXCEPT !.log.report_called = @ \cup {i}]
        m1 == IsRunning(m0, i)
    IN  IF ~ m1.ret THEN [m1 EXCEPT !.ret = FALSE]
        ELSE IF ~ m1.inst[i].report_addr THEN [m1 EXCEPT !.ret = FALSE]
        ELSE [m1 EXCEPT !.usr1[m1.inst[i].pid] = @ + 1,
                        !.inst[i].reported_count = @ + 1,
                        !.ret = TRUE,
                        !.log.report_true = @ \cup {i}]

\* ---------------------------------------------------------------- Pool
\* variant: the loop ends at the first instance whose stop() returns False
RECURSIVE StopLoop_UntilFailure(_, _, _)
StopLoop_UntilFailure(m, x, R) ==
    IF x > Len(m.pool_instances) THEN m
    ELSE LET m1 == InstanceStop(m, m.pool_instances[x], R[x]) IN
         IF m1.ret THEN StopLoop_UntilFailure(m1, x + 1, R) ELSE m1

\* variant: only the first tracked instance is stopped
StopLoop_FirstOnly(m, x, R) ==
    IF Len(m.pool_instances) = 0 THEN m
    ELSE InstanceStop(m, m.pool_instances[1], R[1])

\* the loop of Pool.stop from index x on; R[x] is the reaction of the worker
\* of the x-th instance
RECURSIVE StopLoop(_, _, _)
StopLoop(m, x, R) ==
    IF x > Len(m.pool_instances) THEN m
    ELSE StopLoop(InstanceStop(m, m.pool_instances[x], R[x]), x + 1, R)

\* Pool.stop
PoolStop(m, R) ==
    [StopLoop([m EXCEPT !.stopped = TRUE], 1, R) EXCEPT !.ret = TRUE]

\* variant: a dead instance is restarted whatever its exit code
HandleDeath_AnyCode(m, i, o) ==
    LET m1 == IsRunning(m, i) IN
    IF ~ m1.ret /\ ~ m1.stopped THEN InstanceStart(m1, i, o) ELSE m1

\* variant: a dead instance is only reaped
HandleDeath_NoRestart(m, i, o) == IsRunning(m, i)

\* one instance in the SIGCHLD branch of Pool.signal_handler
HandleDeath(m, i, o) ==
    LET m1 == IsRunning(m, i) IN
    IF ~ m1.ret /\ ~ m1.stopped
    THEN IF m1.inst[i].exit_code = 0 THEN m1
         ELSE InstanceStart(m1, i, o)
    ELSE m1

\* variant: the loop ends at the first restart that fails
RECURSIVE DeathLoop_UntilFailure(_, _, _)
DeathLoop_UntilFailure(m, x, O) ==
    IF x > Len(m.pool_instances) THEN m
    ELSE LET i == m.pool_instances[x]
             m1 == HandleDeath(m, i, O[x])
         IN  IF i \in m1.log.started \ m1.log.alive THEN m1
             ELSE DeathLoop_UntilFailure(m1, x + 1, O)

\* the for loop of the SIGCHLD branch
RECURSIVE DeathLoop(_, _, _)
DeathLoop(m, x, O) ==
    IF x > Len(m.pool_instances) THEN m
    ELSE DeathLoop(HandleDeath(m, m.pool_instances[x], O[x]), x + 1, O)

\* [not i.is_running() for i in self.__instances]: every instance is asked;
\* ret is all(...) of the answers
RECURSIVE AllDead(_, _, _)
AllDead(m, x, acc) ==
    IF x > Len(m.pool_instances) THEN [m EXCEPT !.ret = acc]
    ELSE LET m1 == IsRunning(m, m.pool_instances[x]) IN
         AllDead(m1, x + 1, acc /\ ~ m1.ret)

\* Pool.signal_handler(SIGCHLD)
HandleChld(m, O, R) ==
    IF ~ m.stopped
    THEN LET m1 == DeathLoop(m, 1, O)
             m2 == AllDead(m1, 1, TRUE)
         IN  IF m2.ret /\ ~ m2.stopped THEN PoolStop(m2, R) ELSE m2
    ELSE m

\* variant: a pool that is stopped already is left alone
HandleTerm_UnlessStopped(m, R) == IF m.stopped THEN m ELSE PoolStop(m, R)

\* Pool.signal_handler(SIGTERM)
HandleTerm(m, R) == PoolStop(m, R)

\* Pool.signal_handler invoked while it runs: for SIGTERM, or for the SIGCHLD
\* of the worker p, which has ended with z
HandleInner(m, sig, p, z, O, R) ==
    IF sig = "SIGTERM" THEN HandleTerm(m, R)
    ELSE HandleChld([m EXCEPT !.proc[p] = z], O, R)

\* One instance in the SIGCHLD branch when the handler is entered again
\* between the liveness check (line 195) and the restart (line 208): the
\* signal sig is delivered meanwhile, and the inner invocation runs to its
\* end before the outer one goes on to the restart.
HandleDeathReentered(m, i, o, sig, p, z, O, R) ==
    LET m1 == IsRunning(m, i) IN
    IF ~ m1.ret /\ ~ m1.stopped
    THEN LET m2 == HandleInner(m1, sig, p, z, O, R) IN
         IF m2.inst[i].exit_code = 0 THEN m2
         ELSE InstanceStart(m2, i, o)
    ELSE m1

\* the for loop of the SIGCHLD branch, entered again at the instance in
\* place at
RECURSIVE DeathLoopReentered(_, _, _, _, _, _, _, _)
DeathLoopReentered(m, x, O, at, sig, p, z, R) ==
    IF x > Len(m.pool_instances) THEN m
    ELSE LET i == m.pool_instances[x]
             m1 == IF x = at
                   THEN HandleDeathReentered(m, i, O[x], sig, p, z, O, R)
                   ELSE HandleDeath(m, i, O[x])
         IN  DeathLoopReentered(m1, x + 1, O, at, sig, p, z, R)

\* Pool.signal_handler(SIGCHLD) with one further invocation inside it; O[x]
\* is the outcome of a start of the x-th instance in either invocation
HandleChldReentered(m, O, at, sig, p, z, R) ==
    IF ~ m.stopped
    THEN LET m1 == DeathLoopReentered(m, 1, O, at, sig, p, z, R)
             m2 == AllDead(m1, 1, TRUE)
         IN  IF m2.ret /\ ~ m2.stopped THEN PoolStop(m2, R) ELSE m2
    ELSE m


\* the name of an instance, "<service>-<seq>"
NameOf(m, i) == <<m.inst[i].service, m.inst[i].seq>>

\* Pool.collect_reports: report['instances'][instance.name] =
\* json.loads(report_data), where the data come from the worker j whose
\* connection accept() returned; its payload holds its own name and pid
Stored(m, i, j) ==
    [name |-> NameOf(m, i), payload_name |-> NameOf(m, j),
     pid |-> m.inst[j].pid]

\* variant: the first accept that times out ends the loop
RECURSIVE CollectLoop_AbortOnTimeout(_, _, _, _)
CollectLoop_AbortOnTimeout(m, x, A, got) ==
    IF x > Len(m.pool_instances) THEN [m EXCEPT !.ret = got]
    ELSE LET i == m.pool_instances[x]
             m1 == InstanceReport(m, i)
         IN  IF m1.ret
             THEN IF A[x]
                  THEN CollectLoop_AbortOnTimeout(m1, x + 1, A,
                           got \cup {Stored(m1, i, i)})
                  ELSE [m1 EXCEPT !.log.timed_out = @ \cup {i}, !.ret = got]
             ELSE CollectLoop_AbortOnTimeout(m1, x + 1, A, got)

\* the body of the for loop of Pool.collect_reports after instance.report()
\* has returned in m1, for the instance i in place x: ret is what the turn
\* adds to report['instances'].  A[x] says whether the worker of the x-th
\* instance connects before the accept times out, and m1.log.late holds the
\* places whose worker connects after that, while the socket still listens.
\* m1.log.backlog is the queue of the connections made and not yet accepted:
\* accept() returns its head, whoever was asked last.
CollectAccept(m1, i, x, A) ==
    IF ~ m1.ret THEN [m1 EXCEPT !.ret = {}]
    ELSE IF m1.log.backlog # <<>>
    THEN [m1 EXCEPT !.ret = {Stored(m1, i, Head(m1.log.backlog))},
                    !.log.backlog =
                        IF A[x] \/ x \in m1.log.late
                        THEN Append(Tail(@), i) ELSE Tail(@)]
    ELSE IF A[x]
    THEN [m1 EXCEPT !.ret = {Stored(m1, i, i)}]
    ELSE [m1 EXCEPT !.ret = {},
                    !.log.timed_out = @ \cup {i},
                    !.log.backlog = IF x \in m1.log.late
                                    THEN <<i>> ELSE <<>>]

\* one turn of the for loop of Pool.collect_reports, for the place x
CollectTurn(m, x, A) ==
    CollectAccept(InstanceReport(m, m.pool_instances[x]),
                  m.pool_instances[x], x, A)

\* the for loop of Pool.collect_reports from the place x on
RECURSIVE CollectLoop(_, _, _, _)
CollectLoop(m, x, A, got) ==
    IF x > Len(m.pool_instances) THEN [m EXCEPT !.ret = got]
    ELSE LET m1 == CollectTurn(m, x, A) IN
         CollectLoop(m1, x + 1, A, got \cup m1.ret)

\* Pool.collect_reports: ret is the document
CollectReports(m, A) ==
    LET m1 == CollectLoop(m, 1, A, {}) IN
    [m1 EXCEPT !.ret = [success |-> TRUE,
                        instances_count |-> Len(m.pool_instances),
                        instances |-> m1.ret]]

\* the places where Pool.collect_reports can fail: creating the internal
\* socket, binding it, receiving and parsing the answer of an instance, or a
\* signal that arrives while accept() waits for the answer of an instance
CollectFailures == {"none", "socket", "bind", "answer", "interrupt"}

\* json.dumps({'success': False})
FailureDoc == [success |-> FALSE]

\* Pool.collect_reports with its try and except: the collection fails at f.
\* A failure of socket.socket leaves the name incoming_sock unbound, so the
\* close() of the except clause raises and the call returns no document.
\* A failure after that ends the for loop at the instance in place bad, whose
\* report() was called; the socket is closed and the failure document returned.
\* A child-death signal that arrives while accept() waits for the instance in
\* place bad runs the pool's handler (outcomes O) and then makes accept()
\* raise socket.error with EINTR, which is not socket.timeout: the for loop
\* ends in the outer except clause like any other failure.
CollectReportsTry(m, A, f, bad, O) ==
    CASE f = "none" ->
           [CollectReports(m, A) EXCEPT !.log.incoming_sock = "closed"]
      [] f = "socket" ->
           [m EXCEPT !.log.raised = TRUE]
      [] f = "bind" ->
           [m EXCEPT !.ret = FailureDoc, !.log.incoming_sock = "closed"]
      [] f = "answer" ->
           LET m1 == CollectLoop([m EXCEPT !.pool_instances =
                                      SubSeq(@, 1, bad - 1)], 1, A, {})
               m2 == InstanceReport([m1 EXCEPT !.pool_instances =
                                         m.pool_instances],
                                    m.pool_instances[bad])
           IN  [m2 EXCEPT !.ret = FailureDoc, !.log.incoming_sock = "closed",
                          !.log.unparsable = bad]
      [] f = "interrupt" ->
           LET m1 == CollectLoop([m EXCEPT !.pool_instances =
                                      SubSeq(@, 1, bad - 1)], 1, A, {})
               m2 == InstanceReport([m1 EXCEPT !.pool_instances =
                                         m.pool_instances],
                                    m.pool_instances[bad])
               m3 == HandleChld([m2 EXCEPT !.sigchld = FALSE], O,
                                [x \in 1 .. Len(m.pool_instances) |-> "exit"])
           IN  [m3 EXCEPT !.ret = FailureDoc, !.log.incoming_sock = "closed",
                          !.log.interrupted = bad]

\* the text of the document as the pieces client.send can cut it into
DocText(d) ==
    IF "instances" \in DOMAIN d
    THEN <<"success", "instances_count", "instances">>
             \o [x \in 1 .. Cardinality(d.instances) |-> "entry"]
    ELSE <<"success">>

\* the ways the sending of the document to the client can go: every send
\* succeeds, or a signal arrives while a send is blocked
SendFailures == {"none", "interrupt"}

\* serve_with_report: while report: send = client.send(report);
\* report = report[send:].  Each send takes at most step pieces; got is what
\* the client has received.  With stop_at > 0 the send number stop_at raises
\* and the loop is left.
RECURSIVE SendLoop(_, _, _, _, _)
SendLoop(report, step, got, n, stop_at) ==
    IF report = <<>> \/ n = stop_at THEN got
    ELSE LET send == IF step < Len(report) THEN step ELSE Len(report) IN
         SendLoop(SubSeq(report, send + 1, Len(report)), step,
                  got \o SubSeq(report, 1, send), n + 1, stop_at)

\* Service.instances
ServiceInstances(s) ==
    [x \in 1 .. Len(svc_instances[s]) |->
        [pid |-> inst[svc_instances[s][x]].pid,
         name |-> <<inst[svc_instances[s][x]].service,
                    inst[svc_instances[s][x]].seq>>,
         reported_count |-> inst[svc_instances[s][x]].reported_count]]

\* Pool.instances: the services that are its keys, and the list of each
PoolInstancesKeys == {pool_services[x].service : x \in 1 .. Len(pool_services)}

PoolInstances == [s \in PoolInstancesKeys |-> ServiceInstances(s)]

\* ------------------------------------------------------------- actions
\* The result m of a method becomes the next state.  true_reports counts, for
\* each instance, the calls of Instance.report that returned True (history).
Commit(m) ==
    /\ inst' = [i \in DOMAIN m.inst |->
                   IF i \in m.log.report_true
                   THEN [m.inst[i] EXCEPT !.true_reports = @ + 1]
                   ELSE m.inst[i]]
    /\ svc_instances' = m.svc_instances
    /\ proc' = m.proc
    /\ next_pid' = m.next_pid
    /\ usr1' = m.usr1
    /\ stopped' = m.stopped

\* -------------------------------------------------------------- inputs
Slots == 1 .. Len(pool_instances)

\* The inputs that can make a difference: the reaction of a worker that is
\* running, the outcome of a start for an instance that is not.
Running(x) ==
    LET pid == inst[pool_instances[x]].pid IN
    pid # 0 /\ pid # None /\ proc[pid] = "run"

ReactionInputs ==
    {[x \in Slots |-> IF x \in DOMAIN r THEN r[x] ELSE "exit"] :
        r \in [{x \in Slots : Running(x)} -> Reactions]}

OutcomeInputs ==
    {[x \in Slots |-> IF x \in DOMAIN o THEN o[x] ELSE "ok"] :
        o \in [{x \in Slots : ~ Running(x)} -> Outcomes]}

AnswerInputs ==
    {[x \in Slots |-> x \notin silent] :
        silent \in SUBSET {x \in Slots :
                              Running(x) /\ inst[pool_instances[x]].report_addr}}

\* no reaction is asked for where no worker can be running
NoReaction == [x \in Slots |-> "exit"]

\* Pool.start stops the pool only when the start fails
StartInputs == {<<"ok", NoReaction>>} \cup
               {<<o, R>> : o \in Outcomes \ {"ok"}, R \in ReactionInputs} \cup
               {<<"ok", R>> : R \in IF next_pid \notin DOMAIN proc THEN ReactionInputs
                                    ELSE {}}

\* Python's None as a value
PyNone == [none |-> 0]

\* no entry under the instance's name
Absent == [absent |-> 0]

\* Context.__init__, and Context.start up to the call of handler.start()
NewContext ==
    [stopped |-> FALSE, stop_called |-> FALSE, state |-> "start", code |-> -1,
     event |-> "none"]

\* the connection between a worker and collect_reports, nothing sent yet
Channel(p) ==
    /\ phase = p
    /\ conn = "none"
    /\ handler_report = PyNone
    /\ payload = [dict |-> <<>>]
    /\ msg = <<>>
    /\ wire = <<>>
    /\ report_data = <<>>
    /\ entry = Absent
    /\ ctx = NewContext

\* Daemon(name, namespace, daemonise=True, pid=path) constructed, no daemon
\* started, no pid file
DaemonConstructed ==
    /\ dpc = "idle"
    /\ dpolls = 0
    /\ dpid = 0
    /\ pidfile = 0
    /\ dchild = {}
    /\ dterm = {}

\* the state once the services and the pool are constructed, on a system
\* that hands out the process ids P
ConstructedWith(P) ==
    /\ pc = "init"
    /\ pool_services = <<>>
    /\ pool_instances = <<>>
    /\ stopped = FALSE
    /\ started_with = "start"
    /\ si = 1
    /\ k = 0
    /\ pending = 0
    /\ starts = 0
    /\ report_addr = [s \in Services |-> s = "B"]
    /\ seq_number = [s \in Services |-> 0]
    /\ svc_instances = [s \in Services |-> <<>>]
    /\ inst = <<>>
    /\ proc = [p \in P |-> "none"]
    /\ next_pid = 1
    /\ usr1 = [p \in P |-> 0]
    /\ sigchld = FALSE
    /\ collects = 0
    /\ doc = [success |-> FALSE, instances_count |-> 0, instances |-> {}]
    /\ last = NoLog

Constructed == ConstructedWith(Pids)

\* Pool() without a configuration namespace: no "report" in its config
Init ==
    /\ config_report = FALSE
    /\ Constructed
    /\ Channel("off")
    /\ DaemonConstructed

\* Pool(namespace), with or without report addresses in the configuration
InitServe ==
    /\ config_report \in BOOLEAN
    /\ Constructed
    /\ Channel("off")
    /\ DaemonConstructed

\* Pool.attach(service, multiply); None stands for the absent argument
Attach(s, mult) ==
    /\ pc = "init"
    /\ Len(pool_services) < Len(AttachOrder)
    /\ s = AttachOrder[Len(pool_services) + 1]
    /\ report_addr' = IF config_report THEN [report_addr EXCEPT ![s] = TRUE]
                      ELSE report_addr
    /\ pool_services' = Append(pool_services, [service |-> s, multiply |-> mult])
    /\ last' = [NoLog EXCEPT !.op = "attach"]
    /\ UNCHANGED <<chan_vars, daemon_vars>>
    /\ UNCHANGED <<pc, config_report, pool_instances, stopped, started_with,
                   si, k, pending, starts, seq_number, svc_instances, inst,
                   proc, next_pid, usr1, sigchld, collects, doc>>

\* if service['multiply']: Python's truth of None and of 0
Truthy(mult) == mult # None /\ mult # 0

\* variant: an absent count stands for one instance
Wanted_DefaultOne(mult) == IF mult = None THEN 1 ELSE mult

\* the turns of "for i in range(service['multiply'])" under that if
Wanted(mult) == IF Truthy(mult) THEN mult ELSE 0

\* the position of the loops of Pool.start, moved past the services that are
\* disabled or have all their instances
RECURSIVE Skip(_, _)
Skip(x, n) ==
    IF x > Len(pool_services) THEN <<x, 0>>
    ELSE IF n < Wanted(pool_services[x].multiply)
    THEN <<x, n>>
    ELSE Skip(x + 1, 0)

\* Pool.start is called (by the program, or first thing in serve_with_report)
StartCall(how) ==
    /\ pc \in {"init", "idle"}
    /\ starts < MaxStarts
    /\ starts' = starts + 1
    /\ started_with' = how
    /\ stopped' = FALSE
    /\ pc' = "start"
    /\ si' = 1
    /\ k' = 0
    /\ last' = [NoLog EXCEPT !.op = "start_call"]
    /\ UNCHANGED <<chan_vars, daemon_vars>>
    /\ UNCHANGED <<config_report, pool_services, pool_instances, pending,
                   report_addr, seq_number, svc_instances, inst, proc,
                   next_pid, usr1, sigchld, collects, doc>>

\* where the main thread is once Pool.start has returned
AfterStart == IF started_with \in {"serve", "block"} THEN "serve" ELSE "idle"

\* Instance(seq_number, name, handler, report_addr, callback) as Service.start
\* of service s builds it
NewInstance(s) ==
    [service |-> s, seq |-> seq_number[s] + 1, pid |-> 0,
     exit_code |-> None, reported_count |-> 0,
     report_addr |-> report_addr[s], true_reports |-> 0,
     call |-> starts]

\* Service.start: ret says whether the new instance, the last of inst, is
\* returned (True) or None is (False)
ServiceStart(m, s, o) ==
    InstanceStart([m EXCEPT !.inst = Append(@, NewInstance(s))],
                  Len(m.inst) + 1, o)

\* Pool.start, one turn of the inner loop up to the return of Service.start:
\* Service.start builds the next Instance and starts it.  When it returns
\* None, Pool.start stops the pool and returns False.
StartService(o, R) ==
    /\ pc = "start"
    /\ Skip(si, k)[1] <= Len(pool_services)
    /\ LET x == Skip(si, k)[1]
           s == pool_services[x].service
           i == Len(inst) + 1
           m1 == ServiceStart(M, s, o)
       IN  /\ seq_number' = [seq_number EXCEPT ![s] = @ + 1]
           /\ si' = x
           /\ k' = Skip(si, k)[2]
           /\ IF m1.ret
              THEN /\ Commit(m1)
                   /\ sigchld' = m1.sigchld
                   /\ pending' = i
                   /\ pc' = "append"
                   /\ last' = [m1.log EXCEPT !.op = "service_start",
                                             !.ret = TRUE]
              ELSE LET m2 == PoolStop(m1, R) IN
                   /\ Commit(m2)
                   /\ sigchld' = m2.sigchld
                   /\ pending' = 0
                   /\ pc' = AfterStart
                   /\ last' = [m2.log EXCEPT !.op = "start", !.ret = FALSE]
    /\ UNCHANGED <<chan_vars, daemon_vars>>
    /\ UNCHANGED <<config_report, pool_services, pool_instances,
                   started_with, starts, report_addr, collects, doc>>

\* Pool.start: self.__instances.append(instance)
StartAppend ==
    /\ pc = "append"
    /\ pool_instances' = Append(pool_instances, pending)
    /\ pending' = 0
    /\ k' = k + 1
    /\ pc' = "start"
    /\ last' = [NoLog EXCEPT !.op = "append"]
    /\ UNCHANGED <<chan_vars, daemon_vars>>
    /\ UNCHANGED <<config_report, pool_services, stopped, started_with, si,
                   starts, report_addr, seq_number, svc_instances, inst, proc,
                   next_pid, usr1, sigchld, collects, doc>>

\* Pool.start: the loops are over, return True
StartReturn ==
    /\ pc = "start"
    /\ Skip(si, k)[1] > Len(pool_services)
    /\ pc' = AfterStart
    /\ last' = [NoLog EXCEPT !.op = "start", !.ret = TRUE]
    /\ UNCHANGED <<chan_vars, daemon_vars>>
    /\ UNCHANGED <<config_report, pool_services, pool_instances, stopped,
                   started_with, si, k, pending, starts, report_addr,
                   seq_number, svc_instances, inst, proc, next_pid, usr1,
                   sigchld, collects, doc>>

\* the program calls Pool.stop
Stop(R) ==
    /\ pc = "idle"
    /\ starts > 0
    /\ LET m1 == PoolStop(M, R) IN
       /\ Commit(m1)
       /\ sigchld' = m1.sigchld
       /\ last' = [m1.log EXCEPT !.op = "stop", !.ret = m1.ret]
    /\ UNCHANGED <<chan_vars, daemon_vars>>
    /\ UNCHANGED <<pc, config_report, pool_services, pool_instances,
                   started_with, si, k, pending, starts, report_addr,
                   seq_number, collects, doc>>

\* a worker leaves: handler.start() ends with h and the worker exits through
\* Context.start and Instance.start, or the process is killed by a signal
WorkerExit(p, h) ==
    /\ proc[p] = "run"
    /\ proc' = [proc EXCEPT ![p] = WaitStatus(h)]
    /\ sigchld' = TRUE
    /\ last' = [NoLog EXCEPT !.op = "worker_exit",
                             !.handler = h.start,
                             !.requested = h.code,
                             !.handler_stop = h.start # "killed" /\
                                              ContextStart(h).stop_called]
    /\ UNCHANGED <<chan_vars, daemon_vars>>
    /\ UNCHANGED <<pc, config_report, pool_services, pool_instances, stopped,
                   started_with, si, k, pending, starts, report_addr,
                   seq_number, svc_instances, inst, next_pid, usr1,
                   collects, doc>>

\* where the main thread is after a signal handler has run: signal.pause()
\* returns, accept() raises EINTR, and the loop goes to its test again
AfterSignal == IF pc = "wait" THEN "serve" ELSE pc

\* the pending SIGCHLD is delivered: Pool.signal_handler(SIGCHLD, frame).
\* The handler stops the pool only when it has found every instance dead, so
\* no worker is left to react to a SIGTERM.
SigChld(O) ==
    /\ sigchld
    /\ LET m1 == HandleChld([M EXCEPT !.sigchld = FALSE], O, NoReaction) IN
       /\ Commit(m1)
       /\ sigchld' = m1.sigchld
       /\ last' = [m1.log EXCEPT !.op = "sigchld"]
    /\ pc' = AfterSignal
    /\ UNCHANGED <<chan_vars, daemon_vars>>
    /\ UNCHANGED <<config_report, pool_services, pool_instances,
                   started_with, si, k, pending, starts, report_addr,
                   seq_number, collects, doc>>

\* the signals that can arrive while the handler runs: a SIGTERM, or the
\* SIGCHLD of a running worker p that ends with z
InnerSignals ==
    {<<"SIGTERM", 0, "z0">>} \cup
    {<<"SIGCHLD", p, z>> : p \in {q \in DOMAIN proc : proc[q] = "run"},
                          z \in Zombies}

\* The pending SIGCHLD is delivered and, while the handler is between the
\* liveness check and the restart of the dead instance in place at, the signal
\* g arrives and is handled at once: signal_handler does not block signals
\* and keeps no note that it is running.
SigChldReentered(O, at, g, R) ==
    /\ sigchld
    /\ ~ stopped
    /\ at \in Slots
    /\ ~ Running(at)
    /\ g \in InnerSignals
    /\ g[1] = "SIGCHLD" => R = NoReaction
    /\ LET m1 == HandleChldReentered([M EXCEPT !.sigchld = FALSE],
                                     O, at, g[1], g[2], g[3], R) IN
       /\ Commit(m1)
       /\ sigchld' = m1.sigchld
       /\ last' = [m1.log EXCEPT !.op = IF g[1] = "SIGTERM"
                                        THEN "sigchld_sigterm"
                                        ELSE "sigchld_reentered"]
    /\ pc' = AfterSignal
    /\ UNCHANGED <<chan_vars, daemon_vars>>
    /\ UNCHANGED <<config_report, pool_services, pool_instances,
                   started_with, si, k, pending, starts, report_addr,
                   seq_number, collects, doc>>

\* a SIGTERM sent to the pool process is delivered (the handler is installed
\* by the first Pool.start): Pool.signal_handler(SIGTERM, frame)
SigTerm(R) ==
    /\ starts > 0
    /\ LET m1 == HandleTerm(M, R) IN
       /\ Commit(m1)
       /\ sigchld' = m1.sigchld
       /\ last' = [m1.log EXCEPT !.op = "sigterm"]
    /\ pc' = AfterSignal
    /\ UNCHANGED <<chan_vars, daemon_vars>>
    /\ UNCHANGED <<config_report, pool_services, pool_instances,
                   started_with, si, k, pending, starts, report_addr,
                   seq_number, collects, doc>>

\* serve_blocking, serve_with_report: "while not self.__stopped" is true
ServeEnter ==
    /\ pc = "serve"
    /\ ~ stopped
    /\ pc' = "enter"
    /\ last' = [NoLog EXCEPT !.op = "serve_enter"]
    /\ UNCHANGED <<chan_vars, daemon_vars>>
    /\ UNCHANGED <<config_report, pool_services, pool_instances, stopped,
                   started_with, si, k, pending, starts, report_addr,
                   seq_number, svc_instances, inst, proc, next_pid, usr1,
                   sigchld, collects, doc>>

\* serve_blocking: signal.pause(); serve_with_report: outgoing_sock.accept()
ServeBlock ==
    /\ pc = "enter"
    /\ pc' = "wait"
    /\ last' = [NoLog EXCEPT !.op = "serve_block"]
    /\ UNCHANGED <<chan_vars, daemon_vars>>
    /\ UNCHANGED <<config_report, pool_services, pool_instances, stopped,
                   started_with, si, k, pending, starts, report_addr,
                   seq_number, svc_instances, inst, proc, next_pid, usr1,
                   sigchld, collects, doc>>

\* serve_with_report: a client is accepted on the public socket, the reports
\* are collected and the document is sent to it.  The collection fails at f
\* (for "answer": at the instance in place bad, which was asked and whose
\* answer cannot be received or parsed).  An exception that leaves
\* collect_reports is caught by the loop, which stops the pool.  The document
\* is sent in pieces of at most step; a child-death signal that arrives while
\* the send number stop_at is blocked runs the pool's handler and makes the
\* send raise socket.error with EINTR, which the loop catches and passes
\* over: client.close() is not reached.  L holds the places whose worker
\* answers late.
ClientConnect(A, f, bad, R) ==
    /\ pc = "wait"
    /\ started_with = "serve"
    /\ collects < MaxCollects
    /\ f \in CollectFailures
    /\ IF f \in {"answer", "interrupt"}
       THEN bad \in Slots /\ Running(bad) /\ A[bad]
                /\ inst[pool_instances[bad]].report_addr
       ELSE bad = 0
    /\ f = "interrupt" => sigchld
    /\ f # "socket" => R = NoReaction
    /\ f \in {"socket", "bind"} => A = [x \in Slots |-> TRUE]
    /\ collects' = collects + 1
    /\ pc' = "serve"
    /\ \E O \in OutcomeInputs, g \in SendFailures, step \in 1 .. MaxChunk,
          stop_at \in 0 .. 2, L \in SUBSET {x \in Slots : ~ A[x]} :
       /\ (f # "interrupt" /\ g # "interrupt") => O = [x \in Slots |-> "ok"]
       /\ g = "interrupt" => sigchld /\ f \in {"none", "bind", "answer"}
       /\ (g = "interrupt") = (stop_at > 0)
       /\ f # "none" => L = {}
       /\ LET m1 == CollectReportsTry([M EXCEPT !.log.late = L], A, f, bad, O)
              text == DocText(m1.ret)
              got == SendLoop(text, step, <<>>, 1, stop_at)
              m2 == IF m1.log.raised
                    THEN PoolStop(m1, R)
                    ELSE IF g = "interrupt"
                    THEN [HandleChld([m1 EXCEPT !.sigchld = FALSE], O,
                                     NoReaction)
                              EXCEPT !.log.client = "open",
                                     !.log.client_got = got]
                    ELSE [m1 EXCEPT !.log.client = "closed",
                                    !.log.client_got = got]
          IN
          /\ g = "interrupt" => got # text
          /\ Commit(m2)
          /\ sigchld' = m2.sigchld
          /\ doc' = IF m1.log.raised THEN doc ELSE m1.ret
          /\ last' = [m2.log EXCEPT
                         !.op = IF f = "none" THEN "collect"
                                ELSE "collect_failed",
                         !.client = IF m1.log.raised THEN "open" ELSE @]
    /\ UNCHANGED <<chan_vars, daemon_vars>>
    /\ UNCHANGED <<config_report, pool_services, pool_instances,
                   started_with, si, k, pending, starts, report_addr,
                   seq_number>>

\* serve_with_report: while not self.__stopped ends
ServeReturn ==
    /\ pc = "serve"
    /\ stopped
    /\ pc' = "idle"
    /\ last' = [NoLog EXCEPT !.op = "serve_return"]
    /\ UNCHANGED <<chan_vars, daemon_vars>>
    /\ UNCHANGED <<config_report, pool_services, pool_instances, stopped,
                   started_with, si, k, pending, starts, report_addr,
                   seq_number, svc_instances, inst, proc, next_pid, usr1,
                   sigchld, collects, doc>>

\* The program attaches its services, calls Pool.start and later Pool.stop;
\* workers die and signals arrive at any time.
Next ==
    \/ \E s \in Services, mult \in {None} \cup (0 .. MaxMultiply) : Attach(s, mult)
    \/ StartCall("start")
    \/ \E in \in StartInputs : StartService(in[1], in[2])
    \/ StartAppend
    \/ StartReturn
    \/ \E R \in ReactionInputs : Stop(R)
    \/ \E p \in Pids, h \in Endings : WorkerExit(p, h)
    \/ \E O \in OutcomeInputs : SigChld(O)
    \/ \E R \in ReactionInputs : SigTerm(R)

Spec == Init /\ [][Next]_vars

\* The program attaches its services and calls Pool.serve_with_report, which
\* starts the pool and serves clients until the pool is stopped, or
\* Pool.serve_blocking, which starts the pool and waits for signals.
NextServe ==
    \/ \E s \in Services, mult \in {None} \cup (0 .. MaxFew) : Attach(s, mult)
    \/ StartCall("serve")
    \/ StartCall("block")
    \/ ServeEnter
    \/ ServeBlock
    \/ \E in \in StartInputs : StartService(in[1], in[2])
    \/ StartAppend
    \/ StartReturn
    \/ \E p \in Pids, h \in Endings : WorkerExit(p, h)
    \/ \E O \in OutcomeInputs : SigChld(O)
    \/ \E R \in ReactionInputs : SigTerm(R)
    \/ /\ pc = "wait"
       /\ \E A \in AnswerInputs, f \in CollectFailures, bad \in {0} \cup Slots,
             R \in ReactionInputs : ClientConnect(A, f, bad, R)
    \/ ServeReturn

SpecServe == InitServe /\ [][NextServe]_vars

\* the steps of the pool's main thread, which runs on whenever it can
MainThread ==
    \/ \E in \in StartInputs : StartService(in[1], in[2])
    \/ StartAppend
    \/ StartReturn
    \/ ServeEnter
    \/ ServeBlock
    \/ ServeReturn

\* the steps of the loop of serve_blocking and of serve_with_report
ServeLoop == ServeEnter \/ ServeBlock \/ ServeReturn

\* the operating system delivers a pending SIGCHLD
Delivery == \E O \in OutcomeInputs : SigChld(O)

\* process ids on a system with room for two workers and two replacements
ReenteredPids == 1 .. MaxPid + 2


InitReentered ==
    /\ config_report = FALSE
    /\ ConstructedWith(ReenteredPids)
    /\ Channel("off")
    /\ DaemonConstructed

\* The program attaches its services and calls Pool.serve_blocking; workers
\* die, terminate signals arrive, and the SIGCHLD handler may be entered
\* again while it runs.
NextReentered ==
    \/ \E s \in Services, mult \in 0 .. MaxFew : Attach(s, mult)
    \/ StartCall("block")
    \/ \E in \in StartInputs : StartService(in[1], in[2])
    \/ StartAppend
    \/ StartReturn
    \/ ServeEnter
    \/ ServeBlock
    \/ ServeReturn
    \/ \E p \in ReenteredPids, h \in Endings : WorkerExit(p, h)
    \/ \E O \in OutcomeInputs : SigChld(O)
    \/ \E R \in ReactionInputs : SigTerm(R)
    \/ \E O \in OutcomeInputs, at \in Slots, g \in InnerSignals,
          R \in ReactionInputs :
           SigChldReentered(O, at, g, R)

SpecReentered == InitReentered /\ [][NextReentered]_vars

\* Pool.serve() while no client asks for a report: the main thread starts the
\* pool and waits in signal.pause() or in accept(), signals arrive at any time.
NextWait ==
    \/ \E s \in Services, mult \in {None} \cup (0 .. MaxMultiply) : Attach(s, mult)
    \/ StartCall("serve")
    \/ StartCall("block")
    \/ MainThread
    \/ \E p \in Pids, h \in Endings : WorkerExit(p, h)
    \/ Delivery
    \/ \E R \in ReactionInputs : SigTerm(R)

\* Weak fairness of Delivery, which is enabled exactly while a SIGCHLD is
\* pending: a pending SIGCHLD is handled.
FairDelivery ==
    []<>(~ sigchld) \/ []<><<last'.op = "sigchld" /\ Delivery>>_vars

\* The serve loop runs on whenever it can and pending signals are delivered.
\* Terminate signals and the ends of workers come when they come.
SpecWaitFair ==
    /\ InitServe
    /\ [][NextWait]_vars
    /\ WF_vars(ServeLoop)
    /\ FairDelivery

\* ------------------------------------------------- the report channel
\* Python values are records named after their type: [int |-> 1],
\* [str |-> "a"], [bool |-> TRUE], [none |-> 0], [list |-> <<...>>],
\* [tuple |-> <<...>>] and [dict |-> <<...>>], a dict being the sequence of
\* its <<key, value>> pairs in iteration order.  A JSON text is the sequence
\* of its tokens: [p |-> "{"] and the other punctuation, [string |-> "a"],
\* [num |-> 1], [lit |-> "true"].

\* str(n) of a small int
IntStr(n) ==
    CASE n = 0 -> "0"
      [] n = 1 -> "1"
      [] n = 2 -> "2"
      [] OTHER -> "3"

\* json.dumps, the key of a dict: a string stays, an int, a bool and None
\* become strings, any other key raises TypeError
DumpsKey(key) ==
    CASE "str" \in DOMAIN key -> [ok |-> TRUE, s |-> key.str]
      [] "int" \in DOMAIN key -> [ok |-> TRUE, s |-> IntStr(key.int)]
      [] "bool" \in DOMAIN key ->
             [ok |-> TRUE, s |-> IF key.bool THEN "true" ELSE "false"]
      [] "none" \in DOMAIN key -> [ok |-> TRUE, s |-> "null"]
      [] OTHER -> [ok |-> FALSE, s |-> ""]

RECURSIVE Dumps(_)
RECURSIVE DumpsItems(_, _)
RECURSIVE DumpsPairs(_, _)

\* json.dumps, the items of a list or tuple from index x on
DumpsItems(s, x) ==
    IF x > Len(s) THEN [ok |-> TRUE, toks |-> <<>>]
    ELSE LET h == Dumps(s[x])
             r == DumpsItems(s, x + 1)
         IN  [ok |-> h.ok /\ r.ok,
              toks |-> h.toks \o (IF x < Len(s) THEN <<[p |-> ","]>> ELSE <<>>)
                              \o r.toks]

\* json.dumps, the pairs of a dict from index x on
DumpsPairs(s, x) ==
    IF x > Len(s) THEN [ok |-> TRUE, toks |-> <<>>]
    ELSE LET key == DumpsKey(s[x][1])
             h == Dumps(s[x][2])
             r == DumpsPairs(s, x + 1)
         IN  [ok |-> key.ok /\ h.ok /\ r.ok,
              toks |-> <<[string |-> key.s], [p |-> ":"]>> \o h.toks
                       \o (IF x < Len(s) THEN <<[p |-> ","]>> ELSE <<>>)
                       \o r.toks]

\* json.dumps(v): ok and the tokens of the text, or not ok (TypeError)
Dumps(v) ==
    CASE "int" \in DOMAIN v -> [ok |-> TRUE, toks |-> <<[num |-> v.int]>>]
      [] "str" \in DOMAIN v -> [ok |-> TRUE, toks |-> <<[string |-> v.str]>>]
      [] "bool" \in DOMAIN v ->
             [ok |-> TRUE,
              toks |-> <<[lit |-> IF v.bool THEN "true" ELSE "false"]>>]
      [] "none" \in DOMAIN v -> [ok |-> TRUE, toks |-> <<[lit |-> "null"]>>]
      [] "list" \in DOMAIN v ->
             LET r == DumpsItems(v.list, 1) IN
             [ok |-> r.ok, toks |-> <<[p |-> "["]>> \o r.toks \o <<[p |-> "]"]>>]
      [] "tuple" \in DOMAIN v ->
             LET r == DumpsItems(v.tuple, 1) IN
             [ok |-> r.ok, toks |-> <<[p |-> "["]>> \o r.toks \o <<[p |-> "]"]>>]
      [] OTHER ->
             LET r == DumpsPairs(v.dict, 1) IN
             [ok |-> r.ok, toks |-> <<[p |-> "{"]>> \o r.toks \o <<[p |-> "}"]>>]

\* d[key] = val on a dict
DictSet(d, key, val) ==
    IF \E x \in 1 .. Len(d) : d[x][1] = key
    THEN [x \in 1 .. Len(d) |-> IF d[x][1] = key THEN <<key, val>> ELSE d[x]]
    ELSE Append(d, <<key, val>>)

\* the token at pos is the punctuation c
IsP(toks, pos, c) ==
    pos <= Len(toks) /\ "p" \in DOMAIN toks[pos] /\ toks[pos].p = c

\* json.loads raises ValueError
ParseError == [ok |-> FALSE, val |-> PyNone, pos |-> 0]

RECURSIVE ParseValue(_, _)
RECURSIVE ParseItems(_, _, _)
RECURSIVE ParsePairs(_, _, _)

\* json.loads, the items of an array after "[" or ","
ParseItems(toks, pos, acc) ==
    LET r == ParseValue(toks, pos) IN
    IF ~ r.ok THEN ParseError
    ELSE IF IsP(toks, r.pos, ",")
    THEN ParseItems(toks, r.pos + 1, Append(acc, r.val))
    ELSE IF IsP(toks, r.pos, "]")
    THEN [ok |-> TRUE, val |-> [list |-> Append(acc, r.val)], pos |-> r.pos + 1]
    ELSE ParseError

\* json.loads, the pairs of an object after "{" or ","
ParsePairs(toks, pos, acc) ==
    IF pos <= Len(toks) /\ "string" \in DOMAIN toks[pos] /\ IsP(toks, pos + 1, ":")
    THEN LET r == ParseValue(toks, pos + 2) IN
         IF ~ r.ok THEN ParseError
         ELSE LET d == DictSet(acc, [str |-> toks[pos].string], r.val) IN
              IF IsP(toks, r.pos, ",") THEN ParsePairs(toks, r.pos + 1, d)
              ELSE IF IsP(toks, r.pos, "}")
              THEN [ok |-> TRUE, val |-> [dict |-> d], pos |-> r.pos + 1]
              ELSE ParseError
    ELSE ParseError

\* json.loads, one value from position pos on
ParseValue(toks, pos) ==
    IF pos > Len(toks) THEN ParseError
    ELSE CASE "num" \in DOMAIN toks[pos] ->
                  [ok |-> TRUE, val |-> [int |-> toks[pos].num], pos |-> pos + 1]
           [] "string" \in DOMAIN toks[pos] ->
                  [ok |-> TRUE, val |-> [str |-> toks[pos].string],
                   pos |-> pos + 1]
           [] "lit" \in DOMAIN toks[pos] ->
                  [ok |-> TRUE,
                   val |-> IF toks[pos].lit = "null" THEN PyNone
                           ELSE [bool |-> toks[pos].lit = "true"],
                   pos |-> pos + 1]
           [] IsP(toks, pos, "[") ->
                  IF IsP(toks, pos + 1, "]")
                  THEN [ok |-> TRUE, val |-> [list |-> <<>>], pos |-> pos + 2]
                  ELSE ParseItems(toks, pos + 1, <<>>)
           [] IsP(toks, pos, "{") ->
                  IF IsP(toks, pos + 1, "}")
                  THEN [ok |-> TRUE, val |-> [dict |-> <<>>], pos |-> pos + 2]
                  ELSE ParsePairs(toks, pos + 1, <<>>)
           [] OTHER -> ParseError

\* json.loads(text): ok and the value, or not ok (ValueError)
Loads(toks) ==
    LET r == ParseValue(toks, 1) IN
    IF r.ok /\ r.pos = Len(toks) + 1 THEN [ok |-> TRUE, val |-> r.val]
    ELSE [ok |-> FALSE, val |-> PyNone]

\* the sequences over S of length up to n
SeqsUpTo(S, n) == UNION {[1 .. m -> S] : m \in 0 .. n}

\* the values handler.report() returns: standard structures of Python
Leaves == {[int |-> 1], [str |-> "a"], [bool |-> TRUE], PyNone}

Keys == {[str |-> "1"], [int |-> 1], [tuple |-> <<>>]}

RECURSIVE PyValues(_)
PyValues(d) ==
    IF d = 0 THEN Leaves
    ELSE PyValues(d - 1)
         \cup {[list |-> s] : s \in SeqsUpTo(PyValues(d - 1), MaxLen)}
         \cup {[tuple |-> s] : s \in SeqsUpTo(PyValues(d - 1), MaxLen)}
         \cup {[dict |-> s] :
                  s \in {q \in SeqsUpTo(Keys \X PyValues(d - 1), MaxLen) :
                            \A x, y \in 1 .. Len(q) :
                                x # y => q[x][1] # q[y][1]}}

\* the dict Context.__send_report hands to json.dumps; st is Context.__stopped
Envelope(v, st) ==
    [dict |-> << <<[str |-> "pid"], [int |-> inst[1].pid]>>,
                 <<[str |-> "stopped"], [bool |-> st]>>,
                 <<[str |-> "started_at"], [str |-> "01.01.1970 00:00:00 UTC"]>>,
                 <<[str |-> "online"], [int |-> 0]>>,
                 <<[str |-> "handler"], [str |-> "Handler"]>>,
                 <<[str |-> "name"], [str |-> "B-1"]>>,
                 <<[str |-> "report"], v>> >>]

\* The pool inside Pool.collect_reports: serviceA is attached without a count
\* and serviceB with one instance, serviceB-1, whose worker runs as process 1;
\* Instance.report() has just sent it the SIGUSR1 and returned True.
Collecting ==
    /\ pc = "wait"
    /\ pool_services = <<[service |-> "A", multiply |-> None],
                         [service |-> "B", multiply |-> 1]>>
    /\ pool_instances = <<1>>
    /\ stopped = FALSE
    /\ started_with = "serve"
    /\ si = 2
    /\ k = 1
    /\ pending = 0
    /\ starts = 1
    /\ report_addr = [s \in Services |-> TRUE]
    /\ seq_number = [s \in Services |-> IF s = "B" THEN 1 ELSE 0]
    /\ svc_instances = [s \in Services |-> IF s = "B" THEN <<1>> ELSE <<>>]
    /\ inst = <<[service |-> "B", seq |-> 1, pid |-> 1, exit_code |-> None,
                 reported_count |-> 1, report_addr |-> TRUE,
                 true_reports |-> 1, call |-> 1]>>
    /\ proc = [p \in Pids |-> IF p = 1 THEN "run" ELSE "none"]
    /\ next_pid = 2
    /\ usr1 = [p \in Pids |-> IF p = 1 THEN 1 ELSE 0]
    /\ sigchld = FALSE
    /\ collects = 1
    /\ doc = [success |-> FALSE, instances_count |-> 0, instances |-> {}]
    /\ last = [NoLog EXCEPT !.op = "collect", !.report_called = {1},
                            !.report_true = {1}]

InitReport ==
    /\ config_report = TRUE
    /\ Collecting
    /\ Channel("wait")
    /\ DaemonConstructed

\* Context.signal_handler(SIGUSR1): handler.report() returns v and
\* __send_report serializes the message and connects (c: the connection is
\* made in time)
SendReport(v, st, c) ==
    /\ phase = "wait"
    /\ conn = "none"
    /\ ctx.state = "start"
    /\ st = ctx.stopped
    /\ handler_report' = v
    /\ payload' = Envelope(v, st)
    /\ IF Dumps(Envelope(v, st)).ok /\ c
       THEN conn' = "open" /\ msg' = Dumps(Envelope(v, st)).toks
       ELSE conn' = "unsent" /\ msg' = <<>>
    /\ UNCHANGED <<ctx, phase, wire, report_data, entry>>
    /\ UNCHANGED <<pool_vars, daemon_vars>>

\* Context.__send_report: send = conn.send(msg); msg = msg[send:]
ConnSend(n) ==
    /\ conn = "open"
    /\ n \in 1 .. Len(msg)
    /\ n <= MaxChunk
    /\ wire' = wire \o SubSeq(msg, 1, n)
    /\ msg' = SubSeq(msg, n + 1, Len(msg))
    /\ UNCHANGED <<ctx, phase, conn, handler_report, payload, report_data, entry>>
    /\ UNCHANGED <<pool_vars, daemon_vars>>

\* variant: the connection is closed after the first send, whatever is left
ConnClose_AfterOneSend ==
    /\ conn = "open"
    /\ wire # <<>> \/ report_data # <<>>
    /\ conn' = "closed"
    /\ UNCHANGED <<ctx, phase, handler_report, payload, msg, wire, report_data,
                   entry>>
    /\ UNCHANGED <<pool_vars, daemon_vars>>

\* Context.__send_report: while msg is over, conn.close()
ConnClose ==
    /\ conn = "open"
    /\ msg = <<>>
    /\ conn' = "closed"
    /\ UNCHANGED <<ctx, phase, handler_report, payload, msg, wire, report_data,
                   entry>>
    /\ UNCHANGED <<pool_vars, daemon_vars>>

\* the worker is killed while it sends; its end of the connection closes
WorkerKilled ==
    /\ conn = "open"
    /\ msg # <<>>
    /\ conn' = "killed"
    /\ proc' = [proc EXCEPT ![inst[1].pid] = "zs"]
    /\ sigchld' = TRUE
    /\ ctx' = [ctx EXCEPT !.state = "killed", !.event = "killed"]
    /\ UNCHANGED daemon_vars
    /\ UNCHANGED <<phase, handler_report, payload, msg, wire, report_data,
                   entry>>
    /\ UNCHANGED <<pc, config_report, pool_services, pool_instances, stopped,
                   started_with, si, k, pending, starts, report_addr,
                   seq_number, svc_instances, inst, next_pid, usr1, collects,
                   doc, last>>

\* Pool.collect_reports: chunk = client.recv(4096); report_data += chunk
ClientRecv ==
    /\ phase = "wait"
    /\ wire # <<>>
    /\ LET n == IF Len(wire) < MaxChunk THEN Len(wire) ELSE MaxChunk IN
       /\ report_data' = report_data \o SubSeq(wire, 1, n)
       /\ wire' = SubSeq(wire, n + 1, Len(wire))
    /\ UNCHANGED <<ctx, phase, conn, handler_report, payload, msg, entry>>
    /\ UNCHANGED <<pool_vars, daemon_vars>>

\* Pool.collect_reports: the chunk is empty, break; json.loads(report_data)
\* is stored under the instance's name, or raises
ClientEof ==
    /\ phase = "wait"
    /\ conn \in {"closed", "killed", "dropped"}
    /\ wire = <<>>
    /\ IF Loads(report_data).ok
       THEN phase' = "stored" /\ entry' = Loads(report_data).val
       ELSE phase' = "failed" /\ entry' = entry
    /\ UNCHANGED <<ctx, conn, handler_report, payload, msg, wire, report_data>>
    /\ UNCHANGED <<pool_vars, daemon_vars>>

\* Pool.collect_reports: incoming_sock.accept() raises socket.timeout
AcceptTimeout ==
    /\ phase = "wait"
    /\ conn \in {"none", "unsent"}
    /\ phase' = "timeout"
    /\ UNCHANGED <<ctx, conn, handler_report, payload, msg, wire, report_data,
                   entry>>
    /\ UNCHANGED <<pool_vars, daemon_vars>>

\* Context.__send_report: socket.create_connection or conn.send raises
\* (e: socket.timeout or another error) while tokens are left; the except
\* clauses log it and the handler returns into handler.start().  The
\* connection object is dropped, which closes the worker's end.
SendErrors == {"timeout", "error"}

\* variant: the error leaves the signal handler and ends handler.start()
SendFails_Propagates(e) ==
    /\ conn = "open"
    /\ msg # <<>>
    /\ e \in SendErrors
    /\ conn' = "dropped"
    /\ ctx' = [ctx EXCEPT !.state = "exited", !.code = 1, !.stop_called = TRUE,
                          !.event = "ended"]
    /\ proc' = [proc EXCEPT ![inst[1].pid] = "z1"]
    /\ sigchld' = TRUE
    /\ UNCHANGED <<phase, handler_report, payload, msg, wire, report_data,
                   entry>>
    /\ UNCHANGED daemon_vars
    /\ UNCHANGED <<pc, config_report, pool_services, pool_instances, stopped,
                   started_with, si, k, pending, starts, report_addr,
                   seq_number, svc_instances, inst, next_pid, usr1, collects,
                   doc, last>>

SendFails(e) ==
    /\ conn = "open"
    /\ msg # <<>>
    /\ e \in SendErrors
    /\ conn' = "dropped"
    /\ UNCHANGED <<ctx, proc, sigchld>>
    /\ UNCHANGED <<phase, handler_report, payload, msg, wire, report_data,
                   entry>>
    /\ UNCHANGED daemon_vars
    /\ UNCHANGED <<pc, config_report, pool_services, pool_instances, stopped,
                   started_with, si, k, pending, starts, report_addr,
                   seq_number, svc_instances, inst, next_pid, usr1, collects,
                   doc, last>>

\* what handler.stop() does when the signal handler calls it
StopBehaviours == {"return", "raise"}

\* variant: the terminate signal ends the process
WorkerSigTerm_Exits(t) ==
    /\ ctx.state = "start"
    /\ t \in StopBehaviours
    /\ conn # "open"
    /\ ctx' = [ctx EXCEPT !.stop_called = TRUE, !.stopped = TRUE,
                          !.state = "exited", !.code = 0,
                          !.event = "sigterm"]
    /\ proc' = [proc EXCEPT ![inst[1].pid] = "z0"]
    /\ sigchld' = TRUE
    /\ UNCHANGED <<phase, conn, handler_report, payload, msg, wire,
                   report_data, entry>>
    /\ UNCHANGED daemon_vars
    /\ UNCHANGED <<pc, config_report, pool_services, pool_instances, stopped,
                   started_with, si, k, pending, starts, report_addr,
                   seq_number, svc_instances, inst, next_pid, usr1, collects,
                   doc, last>>

\* Context.signal_handler(SIGTERM) in the worker: handler.stop(), then
\* __stopped = True; the handler returns into handler.start().  When
\* handler.stop() raises (as Handler.stop of the base class does) the flag is
\* not set and the error is raised inside handler.start(): Context.start
\* catches it, calls handler.stop() once more and the worker ends with 1.
WorkerSigTerm(t) ==
    /\ ctx.state = "start"
    /\ t \in StopBehaviours
    /\ IF t = "return"
       THEN /\ ctx' = [ctx EXCEPT !.stop_called = TRUE, !.stopped = TRUE,
                                  !.event = "sigterm"]
            /\ UNCHANGED <<proc, sigchld>>
       ELSE /\ conn # "open"
            /\ ctx' = [ctx EXCEPT
                          !.stop_called = TRUE, !.state = "exited",
                          !.event = "sigterm_raise",
                          !.code = ChildExitCode([start |-> "raise", code |-> 0,
                                                  stop |-> "raise"])]
            /\ proc' = [proc EXCEPT ![inst[1].pid] =
                           WaitStatus([start |-> "raise", code |-> 0,
                                       stop |-> "raise"])]
            /\ sigchld' = TRUE
    /\ UNCHANGED <<phase, conn, handler_report, payload, msg, wire,
                   report_data, entry>>
    /\ UNCHANGED daemon_vars
    /\ UNCHANGED <<pc, config_report, pool_services, pool_instances, stopped,
                   started_with, si, k, pending, starts, report_addr,
                   seq_number, svc_instances, inst, next_pid, usr1, collects,
                   doc, last>>

\* Context.start: handler.start() returns or raises by itself (h), not
\* inside a signal handler, and the worker ends with os._exit
StartEnds(h) ==
    /\ ctx.state = "start"
    /\ conn # "open"
    /\ h \in Endings
    /\ h.start # "killed"
    /\ ctx' = [ctx EXCEPT !.state = "exited", !.code = ChildExitCode(h),
                          !.event = "ended",
                          !.stop_called = @ \/ ContextStart(h).stop_called]
    /\ proc' = [proc EXCEPT ![inst[1].pid] = WaitStatus(h)]
    /\ sigchld' = TRUE
    /\ UNCHANGED <<phase, conn, handler_report, payload, msg, wire,
                   report_data, entry>>
    /\ UNCHANGED daemon_vars
    /\ UNCHANGED <<pc, config_report, pool_services, pool_instances, stopped,
                   started_with, si, k, pending, starts, report_addr,
                   seq_number, svc_instances, inst, next_pid, usr1, collects,
                   doc, last>>

\* One report on its way from a worker to collect_reports.
NextReport ==
    \/ \E v \in PyValues(MaxDepth), st \in BOOLEAN, c \in BOOLEAN :
           SendReport(v, st, c)
    \/ \E n \in 1 .. MaxChunk : ConnSend(n)
    \/ ConnClose
    \/ WorkerKilled
    \/ \E e \in SendErrors : SendFails(e)
    \/ \E t \in StopBehaviours : WorkerSigTerm(t)
    \/ \E h \in Endings : StartEnds(h)
    \/ ClientRecv
    \/ ClientEof
    \/ AcceptTimeout

SpecReport == InitReport /\ [][NextReport]_vars

\* ------------------------------------------------- Pool.restart
\* the process ids at hand when the pool is started a second time
RestartPids == 1 .. MaxPid + 1

InitRestart ==
    /\ config_report = FALSE
    /\ ConstructedWith(RestartPids)
    /\ Channel("off")
    /\ DaemonConstructed

\* Pool.restart: return self.stop() and self.start().  Pool.stop returns
\* True whatever the instances did, so Pool.start is entered: the flag is
\* cleared and the loop begins.  The child-death signals of the workers that
\* exit during the stop are handled inside it, with the flag set, and do
\* nothing.
Restart(R) ==
    /\ pc = "idle"
    /\ starts > 0
    /\ starts <= MaxStarts
    /\ LET m1 == PoolStop(M, R) IN
       /\ Commit([m1 EXCEPT !.stopped = FALSE])
       /\ last' = [m1.log EXCEPT !.op = "restart", !.ret = m1.ret]
    /\ sigchld' = FALSE
    /\ starts' = starts + 1
    /\ pc' = "start"
    /\ si' = 1
    /\ k' = 0
    /\ UNCHANGED <<chan_vars, daemon_vars>>
    /\ UNCHANGED <<config_report, pool_services, pool_instances,
                   started_with, pending, report_addr, seq_number, collects,
                   doc>>

\* The program attaches its services, calls Pool.start and later
\* Pool.restart; workers die and signals arrive at any time.
NextRestart ==
    \/ \E s \in Services, mult \in 0 .. MaxFew : Attach(s, mult)
    \/ StartCall("start")
    \/ \E in \in StartInputs : StartService(in[1], in[2])
    \/ StartAppend
    \/ StartReturn
    \/ \E R \in ReactionInputs : Restart(R)
    \/ \E p \in RestartPids, h \in Endings : WorkerExit(p, h)
    \/ \E O \in OutcomeInputs : SigChld(O)
    \/ \E R \in ReactionInputs : SigTerm(R)

SpecRestart == InitRestart /\ [][NextRestart]_vars

\* ------------------------------------------------- Service without a pool
\* A program that uses a Service by itself, as the module text of service.py
\* shows: instance = service.start(); instance.is_running(); instance.stop().
\* Its calls of is_running() can come from a signal handler or a thread of the
\* program, at any time.

\* instance = service.start()
DirectStart(s, o) ==
    /\ pc = "init"
    /\ Len(inst) < MaxPid
    /\ LET m1 == ServiceStart(M, s, o) IN
       /\ Commit(m1)
       /\ sigchld' = m1.sigchld
       /\ last' = [m1.log EXCEPT !.op = "service_start", !.ret = m1.ret]
    /\ seq_number' = [seq_number EXCEPT ![s] = @ + 1]
    /\ UNCHANGED <<chan_vars, daemon_vars>>
    /\ UNCHANGED <<pc, config_report, pool_services, pool_instances,
                   started_with, si, k, pending, starts, report_addr,
                   collects, doc>>

\* instance.is_running()
Watch(i) ==
    /\ i \in 1 .. Len(inst)
    /\ LET m1 == IsRunning(M, i) IN
       /\ Commit(m1)
       /\ last' = [m1.log EXCEPT !.op = "is_running", !.ret = m1.ret]
    /\ UNCHANGED <<chan_vars, daemon_vars>>
    /\ UNCHANGED <<pc, config_report, pool_services, pool_instances,
                   started_with, si, k, pending, starts, report_addr,
                   seq_number, sigchld, collects, doc>>

\* instance.stop() up to the kill: the instance is not running and the call
\* ends, or it is and the call goes on to os.kill
DirectStopCheck(i) ==
    /\ pc = "init"
    /\ i \in 1 .. Len(inst)
    /\ IF IsRunning(M, i).ret
       THEN /\ pc' = "stopping"
            /\ pending' = i
            /\ last' = [NoLog EXCEPT !.op = "stop_check", !.ret = TRUE]
            /\ UNCHANGED <<inst, svc_instances, proc, next_pid, usr1,
                           stopped>>
       ELSE LET m1 == InstanceStop(M, i, "exit") IN
            /\ Commit(m1)
            /\ last' = [m1.log EXCEPT !.op = "instance_stop",
                                      !.ret = m1.ret]
            /\ UNCHANGED <<pc, pending>>
    /\ UNCHANGED <<chan_vars, daemon_vars>>
    /\ UNCHANGED <<config_report, pool_services, pool_instances,
                   started_with, si, k, starts, report_addr,
                   seq_number, sigchld, collects, doc>>

\* instance.stop() from the kill to its return
DirectStopKill(r, e) ==
    /\ pc = "stopping"
    /\ LET m1 == StopKill([M EXCEPT !.log.stop_called = {pending}],
                          pending, r, e) IN
       /\ Commit(m1)
       /\ last' = [m1.log EXCEPT !.op = "instance_stop", !.ret = m1.ret]
    /\ pc' = "init"
    /\ pending' = 0
    /\ UNCHANGED <<chan_vars, daemon_vars>>
    /\ UNCHANGED <<config_report, pool_services, pool_instances,
                   started_with, si, k, starts, report_addr,
                   seq_number, sigchld, collects, doc>>

NextDirect ==
    \/ \E s \in Services, o \in Outcomes : DirectStart(s, o)
    \/ \E p \in Pids, h \in Endings : WorkerExit(p, h)
    \/ \E i \in 1 .. MaxPid : Watch(i)
    \/ \E i \in 1 .. MaxPid : DirectStopCheck(i)
    \/ \E r \in Reactions, e \in KillErrors : DirectStopKill(r, e)

SpecDirect == Init /\ [][NextDirect]_vars

\* -------------------------------------------------------------- Daemon
\* A daemon is controlled through its pid file by the process that runs
\* main(daemon, command); that process is at dpc:
\*   "idle"   between two commands
\*   "poll"   Daemon.start, in the loop after the first fork
\*   "stop"   Daemon.stop, at the test of "while os.path.exists(/proc/pid)"
\*   "kill"   Daemon.stop, the test has passed, os.kill is not yet made
\* The daemon processes run on their own.  They are no children of the
\* controlling process, so a dead daemon leaves no zombie.

\* for i in range(3) of Daemon.start
DaemonStartPolls == 3

\* what a daemon does with a SIGTERM: the default action ends it at once,
\* a handler of run() makes run() return, or the signal is ignored
DaemonReactions == {"die", "return", "ignore"}

\* os.path.exists('/proc/%d/' % p), and what os.kill(p, 0) finds
ProcExists(p) == p \in DOMAIN proc /\ proc[p] = "run"

\* Daemon.pid: the content of the pid file, None (0) without a file
DaemonPid == pidfile

\* variant: a pid file is trusted without the probe
DaemonIsRunning_TrustFile == DaemonPid # 0

\* Daemon.is_running
DaemonIsRunning == DaemonPid # 0 /\ ProcExists(DaemonPid)

\* the pool, the services and the report channel are not part of a daemon
DaemonFrame ==
    /\ UNCHANGED chan_vars
    /\ UNCHANGED <<pc, config_report, pool_services, pool_instances, stopped,
                   started_with, si, k, pending, starts, report_addr,
                   seq_number, svc_instances, inst, usr1, sigchld, collects,
                   doc>>

\* Daemon.start with daemonise set, up to the first fork.  o says what the
\* forks do: the first fork fails, the daemon process comes to exist, or the
\* first child ends before there is one (chdir, setsid or the second fork
\* fails).
DaemonStart(o) ==
    /\ dpc = "idle"
    /\ IF DaemonIsRunning
       THEN /\ last' = [NoLog EXCEPT !.op = "daemon_start", !.ret = TRUE,
                                     !.alive = {DaemonPid}]
            /\ UNCHANGED <<proc, next_pid, dpc, dpolls, dchild>>
       ELSE IF o = "forkfail" \/ next_pid \notin DOMAIN proc
       THEN /\ last' = [NoLog EXCEPT !.op = "daemon_start", !.ret = FALSE]
            /\ UNCHANGED <<proc, next_pid, dpc, dpolls, dchild>>
       ELSE /\ dpc' = "poll"
            /\ dpolls' = DaemonStartPolls
            /\ last' = [NoLog EXCEPT !.op = "daemon_fork"]
            /\ IF o = "ok"
               THEN /\ proc' = [proc EXCEPT ![next_pid] = "run"]
                    /\ next_pid' = next_pid + 1
                    /\ dchild' = dchild \cup {next_pid}
               ELSE UNCHANGED <<proc, next_pid, dchild>>
    /\ UNCHANGED <<dpid, pidfile, dterm>>
    /\ DaemonFrame

\* Daemon.start, one turn of the loop in the parent: is_running(), sleep
DaemonStartPoll ==
    /\ dpc = "poll"
    /\ IF DaemonIsRunning
       THEN /\ dpc' = "idle"
            /\ dpolls' = 0
            /\ last' = [NoLog EXCEPT !.op = "daemon_start", !.ret = TRUE]
       ELSE IF dpolls > 1
       THEN /\ dpc' = "poll"
            /\ dpolls' = dpolls - 1
            /\ last' = [NoLog EXCEPT !.op = "daemon_poll"]
       ELSE /\ dpc' = "idle"
            /\ dpolls' = 0
            /\ last' = [NoLog EXCEPT !.op = "daemon_start", !.ret = FALSE]
    /\ UNCHANGED <<proc, next_pid, dpid, pidfile, dchild, dterm>>
    /\ DaemonFrame

\* the daemon process p after the second fork: write_pid(), or os._exit(4)
\* when the file cannot be written
WritePid(p, w) ==
    /\ p \in dchild
    /\ proc[p] = "run"
    /\ dchild' = dchild \ {p}
    /\ IF w THEN pidfile' = p /\ UNCHANGED proc
            ELSE proc' = [proc EXCEPT ![p] = "gone"] /\ UNCHANGED pidfile
    /\ last' = [NoLog EXCEPT !.op = "write_pid", !.ret = w]
    /\ UNCHANGED <<next_pid, dpc, dpolls, dpid, dterm>>
    /\ DaemonFrame

\* the finally clause of Daemon.start in the daemon p, then os._exit
RunFinally(p) ==
    /\ pidfile' = IF DaemonPid = p THEN 0 ELSE pidfile
    /\ proc' = [proc EXCEPT ![p] = "gone"]

\* run() of the daemon p returns or raises
RunEnds(p) ==
    /\ ProcExists(p)
    /\ p \notin dchild
    /\ RunFinally(p)
    /\ dterm' = dterm \ {p}
    /\ last' = [NoLog EXCEPT !.op = "run_ends"]
    /\ UNCHANGED <<next_pid, dpc, dpolls, dpid, dchild>>
    /\ DaemonFrame

\* the daemon process p is killed from outside (SIGKILL): no finally clause
\* runs, a pid file it has written stays behind
DaemonKilled(p) ==
    /\ ProcExists(p)
    /\ proc' = [proc EXCEPT ![p] = "gone"]
    /\ dchild' = dchild \ {p}
    /\ dterm' = dterm \ {p}
    /\ last' = [NoLog EXCEPT !.op = "daemon_killed"]
    /\ UNCHANGED <<next_pid, dpc, dpolls, dpid, pidfile>>
    /\ DaemonFrame

\* the daemon p gets its pending SIGTERM
DaemonSigTerm(p, r) ==
    /\ p \in dterm
    /\ ProcExists(p)
    /\ dterm' = dterm \ {p}
    /\ CASE r = "ignore" -> UNCHANGED <<proc, pidfile, dchild>>
         [] r = "return" /\ p \notin dchild ->
                RunFinally(p) /\ UNCHANGED dchild
         [] OTHER -> /\ proc' = [proc EXCEPT ![p] = "gone"]
                     /\ dchild' = dchild \ {p}
                     /\ UNCHANGED pidfile
    /\ last' = [NoLog EXCEPT !.op = "daemon_sigterm"]
    /\ UNCHANGED <<next_pid, dpc, dpolls, dpid>>
    /\ DaemonFrame

\* Daemon.stop up to the loop: pid = self.pid
DaemonStop ==
    /\ dpc = "idle"
    /\ IF DaemonPid = 0
       THEN /\ last' = [NoLog EXCEPT !.op = "daemon_stop", !.ret = TRUE]
            /\ UNCHANGED <<dpc, dpid>>
       ELSE /\ dpid' = DaemonPid
            /\ dpc' = "stop"
            /\ last' = [NoLog EXCEPT !.op = "daemon_stop_call"]
    /\ UNCHANGED <<proc, next_pid, dpolls, pidfile, dchild, dterm>>
    /\ DaemonFrame

\* Daemon.stop after the loop: the pid file is removed, and the result is
\* whether the process is gone
DaemonStopEnd ==
    /\ dpc' = "idle"
    /\ dpid' = 0
    /\ pidfile' = 0
    /\ last' = [NoLog EXCEPT !.op = "daemon_stop",
                             !.ret = ~ ProcExists(dpid)]

\* Daemon.stop: while os.path.exists('/proc/%d/' % pid)
DaemonStopTest ==
    /\ dpc = "stop"
    /\ IF ProcExists(dpid)
       THEN /\ dpc' = "kill"
            /\ last' = [NoLog EXCEPT !.op = "daemon_stop_test"]
            /\ UNCHANGED <<dpid, pidfile>>
       ELSE DaemonStopEnd
    /\ UNCHANGED <<proc, next_pid, dpolls, dchild, dterm>>
    /\ DaemonFrame

\* Daemon.stop: os.kill(pid, SIGTERM) and the sleep, or the break out of the
\* loop when the kill fails with ESRCH (the process is gone by now) or with e
DaemonStopKill(e) ==
    /\ dpc = "kill"
    /\ IF ProcExists(dpid) /\ e = "none"
       THEN /\ dterm' = dterm \cup {dpid}
            /\ dpc' = "stop"
            /\ last' = [NoLog EXCEPT !.op = "daemon_kill",
                            !.stop_signals =
                                <<[pid |-> dpid, sig |-> "SIGTERM"]>>]
            /\ UNCHANGED <<dpid, pidfile>>
       ELSE /\ dpc' = "idle"
            /\ dpid' = 0
            /\ pidfile' = 0
            /\ last' = [NoLog EXCEPT
                            !.op = "daemon_stop",
                            !.ret = ~ ProcExists(dpid),
                            !.kill_error = IF ProcExists(dpid) THEN e
                                           ELSE "ESRCH"]
            /\ UNCHANGED dterm
    /\ UNCHANGED <<proc, next_pid, dpolls, dchild>>
    /\ DaemonFrame

\* the steps of the process that controls the daemon
DaemonControl ==
    \/ \E o \in Outcomes : DaemonStart(o)
    \/ DaemonStartPoll
    \/ DaemonStop
    \/ DaemonStopTest
    \/ \E e \in KillErrors : DaemonStopKill(e)

\* the steps of the daemon processes
DaemonProcess ==
    \/ \E p \in Pids, w \in BOOLEAN : WritePid(p, w)
    \/ \E p \in Pids : RunEnds(p)
    \/ \E p \in Pids : DaemonKilled(p)
    \/ \E p \in Pids, r \in DaemonReactions : DaemonSigTerm(p, r)

\* start and stop commands on one daemon configuration, in any order
NextDaemon == DaemonControl \/ DaemonProcess

SpecDaemon == Init /\ [][NextDaemon]_vars

\* the controlling process runs on, and a daemon gets a signal sent to it
SpecDaemonFair ==
    /\ SpecDaemon
    /\ WF_vars(DaemonControl)
    /\ \A p \in Pids : WF_vars(\E r \in DaemonReactions : DaemonSigTerm(p, r))

\* ------------------------------------------------------------ properties
\* the x-th attached service is disabled: its count is zero or absent
Disabled(x) == pool_services[x].multiply \in {None, 0}

\* the instance count Pool.attach was given for the x-th service
Desired(x) == IF Disabled(x) THEN 0 ELSE pool_services[x].multiply

\* the worker of instance i is alive
Alive(i) == inst[i].pid > 0 /\ proc[inst[i].pid] = "run"

\* the worker of instance i is dead and not reaped, after an abnormal end
DiedAbnormally(i) == inst[i].pid > 0 /\ proc[inst[i].pid] \in {"z1", "zs"}

\* Service.instances() of the service of i has an entry for i with pid p
Listed(i, p) ==
    \E y \in 1 .. Len(ServiceInstances(inst[i].service)) :
        /\ ServiceInstances(inst[i].service)[y].name =
               <<inst[i].service, inst[i].seq>>
        /\ ServiceInstances(inst[i].service)[y].pid = p

\* C1: in the state Pool.start() returns True in, Pool.instances() lists for
\* every attached service exactly as many entries as its desired count, and
\* every entry has a positive pid.
C1_StartListsDesired ==
    (last.op = "start" /\ last.ret) =>
        \A x \in 1 .. Len(pool_services) :
            LET l == PoolInstances[pool_services[x].service] IN
            /\ Len(l) = Desired(x)
            /\ \A y \in 1 .. Len(l) : l[y].pid > 0

\* the exit status the operating system holds or Instance.exit_code last
\* recorded for instance i: 0, a non-zero code, or None
ObservedCode(i) ==
    IF inst[i].pid > 0 /\ proc[inst[i].pid] = "z0" THEN 0
    ELSE IF inst[i].pid > 0 /\ proc[inst[i].pid] = "z1" THEN 1
    ELSE IF inst[i].pid > 0 /\ proc[inst[i].pid] = "zs" THEN None
    ELSE inst[i].exit_code

\* C2 as stated: by the end of the child-death handler invocation that observes
\* the abnormal death of a tracked instance while the pool is not stopped, a
\* new worker process runs for it and Pool.instances() lists it with a pid
\* other than the dead one.
C2_DeathGivesNewWorker ==
    [][(last'.op = "sigchld" /\ ~ stopped) =>
          \A x \in Slots :
              DiedAbnormally(pool_instances[x]) =>
                  /\ inst'[pool_instances[x]].pid # inst[pool_instances[x]].pid
                  /\ Alive(pool_instances[x])'
                  /\ Listed(pool_instances[x], inst[pool_instances[x]].pid)'
      ]_vars

\* C2 amended: the handler invocation that observes the abnormal death calls
\* Instance.start() for the instance; when that start succeeds a new worker
\* runs and Pool.instances() lists the instance with the new pid, different
\* from the dead one; when it fails no worker of the instance runs.
C2_DeathRestartAttempted ==
    [][(last'.op = "sigchld" /\ ~ stopped) =>
          \A x \in Slots :
              DiedAbnormally(pool_instances[x]) =>
                  /\ pool_instances[x] \in last'.started
                  /\ pool_instances[x] \in last'.alive =>
                        /\ inst'[pool_instances[x]].pid > inst[pool_instances[x]].pid
                        /\ Alive(pool_instances[x])'
                        /\ Listed(pool_instances[x],
                                  inst[pool_instances[x]].pid)'
                  /\ pool_instances[x] \notin last'.alive =>
                        ~ Alive(pool_instances[x])'
      ]_vars

\* a handler invocation has restarted an instance that died with exit code 1
C2_Witness ==
    /\ last.op = "sigchld"
    /\ \E i \in last.alive : inst[i].exit_code = 1 /\ Alive(i) /\ inst[i].pid > 1

\* C3: a child-death handler invocation calls Instance.start() for a tracked
\* instance exactly when the pool is not stopped, the instance is not running
\* and its last observed exit status is not the code 0; an instance whose last
\* observed exit code is 0 is restarted by no invocation.
C3_RestartUnlessCleanExit ==
    [][last'.op = "sigchld" =>
          \A x \in Slots :
              pool_instances[x] \in last'.started <=>
                  /\ ~ stopped
                  /\ ~ Alive(pool_instances[x])
                  /\ ObservedCode(pool_instances[x]) # 0
      ]_vars

\* a handler invocation of a pool that is not stopped has left alone an
\* instance that exited with code 0, while another instance runs
C3_Witness ==
    /\ last.op = "sigchld"
    /\ ~ stopped
    /\ \E x \in Slots : /\ inst[pool_instances[x]].exit_code = 0
                        /\ inst[pool_instances[x]].pid > 0
                        /\ proc[inst[pool_instances[x]].pid] = "gone"
                        /\ pool_instances[x] \notin last.started
    /\ \E x \in Slots : Alive(pool_instances[x])

\* the instances the running or last call of Pool.start has created
OfThisCall == {i \in 1 .. Len(inst) : inst[i].call = starts}

\* C4 as stated: when Pool.start() has returned False, no worker started by
\* that call is left running.
C4_FailedStartLeavesNoWorker ==
    (last.op = "start" /\ ~ last.ret) => \A i \in OfThisCall : ~ Alive(i)

\* C4 amended: when Pool.start() has returned False the pool is stopped, the
\* loops are left, Instance.stop() has been called on every instance the call
\* had started, each one whose stop() returned True has no worker and no pid,
\* and the workers left running are exactly those whose stop() returned False.
C4_FailedStartStopsWhatItCan ==
    (last.op = "start" /\ ~ last.ret) =>
        /\ stopped
        /\ pc # "start" /\ pc # "append"
        /\ \A i \in OfThisCall :
               IF i \in Range(pool_instances)
               THEN /\ i \in last.stop_called
                    /\ i \in last.stop_true => inst[i].pid = None
                    /\ i \notin last.stop_true <=> Alive(i)
               ELSE ~ Alive(i) /\ i \notin last.alive

\* a start has failed after two instances were started; one of them stopped,
\* the other ignored the SIGTERM and runs on
C4_Witness ==
    /\ last.op = "start" /\ ~ last.ret
    /\ \E i \in OfThisCall : i \in last.stop_true
    /\ \E i \in OfThisCall : i \in last.stop_called \ last.stop_true /\ Alive(i)

\* C5 as stated: after a successful Service.start() the instance runs, has its
\* pid and is listed by Service.instances() with that pid and its name; after
\* an Instance.stop() that returned True the instance does not run, its pid is
\* unset and Service.instances() has no entry of its name.
C5_ListedWhileStarted ==
    /\ last.op = "service_start" =>
           /\ Alive(pending)
           /\ Listed(pending, inst[pending].pid)
    /\ \A i \in last.stop_true :
           /\ ~ Alive(i)
           /\ inst[i].pid = None
           /\ \A y \in 1 .. Len(ServiceInstances(inst[i].service)) :
                  ServiceInstances(inst[i].service)[y].name #
                      <<inst[i].service, inst[i].seq>>

\* C6 as stated: an Instance.stop() call on an instance that is already
\* stopped (its pid is unset) returns True and changes neither the instance
\* nor the number of its entries in Service.instances() nor any process.
C6_StopTwiceChangesNothing ==
    [][\A i \in last'.stop_called :
           inst[i].pid = None =>
               /\ i \in last'.stop_true
               /\ inst'[i] = inst[i]
               /\ Count(svc_instances'[inst[i].service], i) =
                      Count(svc_instances[inst[i].service], i)
      ]_vars

\* Instance.report() can go through for instance i: its worker is alive and
\* it has a report address
CanReport(i) == Alive(i) /\ inst[i].report_addr

\* the tracked instances whose pid is p and that can report
ReportersOf(p) ==
    {x \in Slots : inst[pool_instances[x]].pid = p /\ CanReport(pool_instances[x])}

\* C7: a call of Instance.report() returns True exactly when the instance is
\* running and has a report address; then it sends one SIGUSR1 to the worker
\* and adds one to reported_count, otherwise it sends nothing and leaves
\* reported_count as it is.  In every state reported_count is the number of
\* report() calls that returned True.
C7_ReportCountsTrueCalls ==
    /\ [](\A i \in 1 .. Len(inst) : inst[i].reported_count = inst[i].true_reports)
    /\ [][last'.op = "collect" =>
             /\ \A x \in Slots :
                    /\ pool_instances[x] \in last'.report_called
                    /\ pool_instances[x] \in last'.report_true <=>
                           CanReport(pool_instances[x])
                    /\ inst'[pool_instances[x]].reported_count =
                           inst[pool_instances[x]].reported_count +
                               (IF CanReport(pool_instances[x]) THEN 1 ELSE 0)
             /\ \A p \in Pids :
                    usr1'[p] = usr1[p] + Cardinality(ReportersOf(p))
        ]_vars

\* one collection has asked a running instance with a report address, which
\* was signalled and counted, and a running instance without one, which was not
C7_Witness ==
    /\ last.op = "collect"
    /\ \E i \in last.report_true :
           inst[i].reported_count = 1 /\ usr1[inst[i].pid] = 1
    /\ \E i \in last.report_called \ last.report_true :
           /\ Alive(i)
           /\ ~ inst[i].report_addr
           /\ inst[i].reported_count = 0
           /\ usr1[inst[i].pid] = 0

RunningTracked == {x \in Slots : Alive(pool_instances[x])}

\* C10 as stated: when a client is served while N > 0 tracked instances run, all
\* of them with a report address and all of them answering in time, the
\* document says success, instances_count = N and has N entries, one for each
\* name.
C10_CountIsRunning ==
    [][(/\ last'.op = "collect"
        /\ RunningTracked # {}
        /\ \A x \in RunningTracked : inst[pool_instances[x]].report_addr
        /\ last'.timed_out = {}) =>
              /\ doc'.success
              /\ doc'.instances_count = Cardinality(RunningTracked)
              /\ {e.name : e \in doc'.instances} =
                     {<<inst[pool_instances[x]].service,
                        inst[pool_instances[x]].seq>> : x \in RunningTracked}
              /\ Cardinality(doc'.instances) = Cardinality(RunningTracked)
      ]_vars

\* the value of the field of the given name in a dict with string keys
Field(d, name) ==
    d.dict[CHOOSE x \in 1 .. Len(d.dict) : d.dict[x][1] = [str |-> name]][2]

\* the names of the fields of a dict with string keys
FieldNames(d) == {d.dict[x][1].str : x \in 1 .. Len(d.dict)}

\* the string a JSON object has for the key of a Python dict
KeyText(key) ==
    IF "str" \in DOMAIN key THEN key.str
    ELSE IF key = [int |-> 1] THEN "1"
    ELSE "?"

RECURSIVE JsonImage(_)
RECURSIVE ImagePairs(_, _, _)

\* the pairs of the image of a dict: every key a string, a later pair
\* replacing an earlier one of the same key
ImagePairs(s, x, acc) ==
    IF x > Len(s) THEN acc
    ELSE ImagePairs(s, x + 1,
                    DictSet(acc, [str |-> KeyText(s[x][1])], JsonImage(s[x][2])))

\* what a JSON text can carry of a Python value: tuples are lists, the keys
\* of dicts are strings
JsonImage(v) ==
    IF "list" \in DOMAIN v
    THEN [list |-> [x \in 1 .. Len(v.list) |-> JsonImage(v.list[x])]]
    ELSE IF "tuple" \in DOMAIN v
    THEN [list |-> [x \in 1 .. Len(v.tuple) |-> JsonImage(v.tuple[x])]]
    ELSE IF "dict" \in DOMAIN v
    THEN [dict |-> ImagePairs(v.dict, 1, <<>>)]
    ELSE v

\* collect_reports is through with a worker that sent its whole message and
\* closed the connection
Delivered == phase \in {"stored", "failed"} /\ conn = "closed"

\* C9 as stated: a report the worker has pushed is stored unchanged, the entry
\* has the fields the worker sent with their values and its report field is
\* the value handler.report() returned.
C9_StoredUnchanged ==
    Delivered =>
        /\ phase = "stored"
        /\ entry = payload
        /\ Field(entry, "report") = handler_report

\* C9 amended: a report the worker has pushed is stored as its JSON image: the
\* entry has exactly the fields pid, stopped, started_at, online, handler, name
\* and report, the first six with the values the worker sent, and its report
\* field is the value handler.report() returned with every tuple turned into a
\* list and every dict key into a string; it is that value itself when the
\* value has no tuple and no key that is not a string.
C9_StoredIsJsonImage ==
    Delivered =>
        /\ phase = "stored"
        /\ FieldNames(entry) = {"pid", "stopped", "started_at", "online",
                                "handler", "name", "report"}
        /\ Len(entry.dict) = 7
        /\ \A f \in {"pid", "stopped", "started_at", "online", "handler", "name"} :
               Field(entry, f) = Field(payload, f)
        /\ Field(entry, "report") = JsonImage(handler_report)
        /\ JsonImage(handler_report) = handler_report =>
               Field(entry, "report") = handler_report

\* a report that is a tuple has been stored, as a list
C9_Witness ==
    /\ Delivered
    /\ phase = "stored"
    /\ handler_report = [tuple |-> <<[int |-> 1]>>]
    /\ Field(entry, "report") = [list |-> <<[int |-> 1]>>]

\* C11: a call of Pool.stop() returns True, leaves the stopped flag set and
\* has called Instance.stop() on every instance the pool tracks, those after
\* an instance whose stop() returned False included.
C11_StopReachesEveryInstance ==
    [][last'.op = "stop" =>
          /\ last'.ret
          /\ stopped'
          /\ \A x \in Slots : pool_instances[x] \in last'.stop_called
          /\ \A x \in Slots :
                 pool_instances[x] \in last'.stop_true \/ Alive(pool_instances[x])'
      ]_vars

\* Pool.stop() has returned after the stop of the first tracked instance
\* failed (its worker runs on) and the stop of a later one went through
C11_Witness ==
    /\ last.op = "stop" /\ last.ret /\ stopped
    /\ \E x, y \in Slots :
           /\ x < y
           /\ pool_instances[x] \in last.stop_called \ last.stop_true
           /\ Alive(pool_instances[x])
           /\ pool_instances[y] \in last.stop_true
           /\ inst[pool_instances[y]].pid = None

\* the main thread is inside the loop of serve_blocking or serve_with_report
Serving == pc \in {"serve", "enter", "wait"}

\* C12 as stated: the serve loop is left only when the pool is stopped, and
\* once the pool is stopped the serve call returns.
C12_ServeReturnsOnceStopped ==
    /\ [][(Serving /\ pc' = "idle") => stopped]_vars
    /\ (Serving /\ stopped) ~> (pc = "idle")

\* the instances Service.start of service s has built, in the order of the calls
InstancesOf(s) == {i \in DOMAIN inst : inst[i].service = s}

\* the sequence numbers of a service are 1, 2, ... in the order of the calls
\* of Service.start, failed starts included, and none is used twice
SeqNumbersIncrease ==
    \A s \in Services :
        /\ {inst[i].seq : i \in InstancesOf(s)} = 1 .. seq_number[s]
        /\ \A i, j \in InstancesOf(s) : i < j => inst[i].seq < inst[j].seq

\* the entries of Service.__instances stand in the order of the start calls
ListedInStartOrder ==
    \A s \in Services :
        \A x, y \in 1 .. Len(svc_instances[s]) :
            x < y => inst[svc_instances[s][x]].seq < inst[svc_instances[s][y]].seq

\* C13 as stated: within one service the sequence numbers increase from 1 and
\* are never reused, a failed start included; the name of an instance is its
\* service and its sequence number; and the live instances of a service are
\* listed in the order of their start calls.
C13_SeqNumbersAndOrder ==
    /\ SeqNumbersIncrease
    /\ \A i, j \in DOMAIN inst : NameOf(M, i) = NameOf(M, j) => i = j
    /\ ListedInStartOrder

\* the instances in the lists of the services
LiveInstances == UNION {Range(svc_instances[s]) : s \in Services}

\* C14 as stated: whenever Pool.start is not under way the instances the pool
\* tracks are those in the lists of its services, and an instance whose
\* stop() has just returned True is in neither list.
C14_TrackedIsUnionOfLive ==
    /\ pc \notin {"start", "append"} => Range(pool_instances) = LiveInstances
    /\ \A i \in last.stop_true :
           i \notin Range(pool_instances) /\ i \notin LiveInstances

\* Instance.pid of instance i is set: neither the initial 0 nor None
PidSet(i) == inst[i].pid # 0 /\ inst[i].pid # None

\* C15 as stated: the pid of an instance is set while its worker runs; it is
\* unset once is_running() has observed the death of the worker (the worker is
\* reaped), after a stop() that returned True and after a start() that
\* returned False.
C15_PidUnsetWhenNotRunning ==
    \A i \in DOMAIN inst :
        /\ Alive(i) => PidSet(i)
        /\ (PidSet(i) /\ ~ Alive(i)) => proc[inst[i].pid] \in Zombies
        /\ i \in last.stop_true => ~ PidSet(i)
        /\ i \in last.started \ last.alive => ~ PidSet(i)

\* C16 as stated: for one death at most one replacement is forked, also when
\* the handler is entered again between the liveness check and the restart.
\* Every process a handler invocation has forked and left running is then
\* the worker its instance holds, so no instance has two.
C16_OneReplacementPerDeath ==
    [][last'.op \in {"sigchld", "sigchld_reentered", "sigchld_sigterm"} =>
           \A p \in DOMAIN proc :
               (proc[p] = "none" /\ proc'[p] = "run") =>
                   \E i \in DOMAIN inst' : inst'[i].pid = p
      ]_vars

\* no tracked instance has a running worker
AllTrackedDead == \A x \in Slots : ~ Alive(pool_instances[x])

\* a SIGCHLD handler invocation that began with the pool not stopped and
\* ends with every tracked instance dead leaves the stopped flag set
AllDeadStopsPool ==
    [][(last'.op = "sigchld" /\ ~ stopped /\ AllTrackedDead') => stopped']_vars

\* C17 as stated: when every tracked instance is dead at the end of a SIGCHLD
\* handler invocation and the pool was not stopped, the handler stops the
\* pool, and the serve call then returns.
C17_AllDeadStopsPoolAndServeReturns ==
    /\ AllDeadStopsPool
    /\ (Serving /\ last.op = "sigchld" /\ stopped /\ AllTrackedDead)
           ~> (pc = "idle")

\* C18: a SIGTERM handler invocation leaves the stopped flag set and has
\* called Instance.stop() on every tracked instance, whether it comes during
\* Pool.start, inside the SIGCHLD handler, while the pool serves or when the
\* pool is stopped already.
C18_TermStopsPool ==
    [][last'.op \in {"sigterm", "sigchld_sigterm"} =>
           /\ stopped'
           /\ \A x \in Slots : pool_instances[x] \in last'.stop_called
      ]_vars

C18_Witness ==
    /\ last.op = "sigchld_sigterm"
    /\ stopped
    /\ Slots # {}
    /\ \A x \in Slots : pool_instances[x] \in last.stop_called
    /\ \E x \in Slots : Alive(pool_instances[x])

\* the instances the pool tracks
Tracked == Range(pool_instances)

\* the names the document has an entry for
EntryNames == {e.name : e \in doc.instances}

\* a collection in which an accept timed out went on: every tracked instance
\* was asked, the instances that answered have their entry and the instances
\* that timed out have none
TimeoutDoesNotAbort ==
    /\ last.report_called = Tracked
    /\ \A i \in last.report_true \ last.timed_out : NameOf(M, i) \in EntryNames
    /\ \A i \in last.timed_out : NameOf(M, i) \notin EntryNames

\* C19 as stated: a wait that times out does not abort the collection, the
\* instance has no entry, and the document records the failure.
C19_TimeoutRecorded ==
    (last.op = "collect" /\ last.timed_out # {}) =>
        /\ TimeoutDoesNotAbort
        /\ ~ doc.success

\* C19 amended: a wait that times out does not abort the collection and the
\* instance has no entry; the document says nothing else about the timeout:
\* success is true, instances_count is the number of tracked instances and
\* the entries are those of the instances that answered.
C19_TimeoutLeavesNoEntry ==
    (last.op = "collect" /\ last.timed_out # {}) =>
        /\ TimeoutDoesNotAbort
        /\ doc.success
        /\ doc.instances_count = Len(pool_instances)
        /\ EntryNames = {NameOf(M, i) : i \in last.report_true \ last.timed_out}

\* the wait for the first of two reporting instances timed out and the
\* second one was collected
C19_Witness ==
    /\ last.op = "collect"
    /\ \E x, y \in Slots :
           /\ x < y
           /\ pool_instances[x] \in last.timed_out
           /\ pool_instances[y] \in last.report_true \ last.timed_out
           /\ NameOf(M, pool_instances[y]) \in EntryNames
           /\ NameOf(M, pool_instances[x]) \notin EntryNames

\* the collections that failed
CollectionFailed == last.op = "collect_failed"

\* C20: when report collection fails (any error other than a per-instance
\* wait timeout), collect_reports returns a document with success false and no
\* instances key, and the internal socket is closed.
C20_FailureDocAndSocketClosed ==
    CollectionFailed =>
        /\ ~ last.raised
        /\ doc = FailureDoc
        /\ DOMAIN doc = {"success"}
        /\ last.incoming_sock = "closed"

\* the same for the failures that come after the internal socket exists:
\* bind, accept, recv, json.loads
FailureAfterSocketCreated ==
    (CollectionFailed /\ last.incoming_sock # "unbound") =>
        /\ ~ last.raised
        /\ doc = FailureDoc
        /\ DOMAIN doc = {"success"}
        /\ last.incoming_sock = "closed"

\* a collection failed at the answer of an instance that was signalled
FailedAtAnswer ==
    /\ CollectionFailed
    /\ last.report_true # {}
    /\ doc = FailureDoc

\* C21: a worker process ends with exit code 0 when handler.start() returns
\* normally, with the requested code when the handler raises SystemExit with
\* a code, and with 1 when handler.start() raises an unhandled error.
C21_ExitCodeOfWorker ==
    [][last'.op = "worker_exit" =>
          \E p \in DOMAIN proc :
              /\ proc[p] = "run" /\ proc'[p] # "run"
              /\ last'.handler = "return" => ExitCodeOf(proc'[p]) = 0
              /\ last'.handler = "exit" => ExitCodeOf(proc'[p]) = last'.requested
              /\ last'.handler = "raise" => ExitCodeOf(proc'[p]) = 1
      ]_vars

\* the same without the explicit exit: code 0 after a normal return, code 1
\* after every exception, SystemExit included
ExitCodeZeroOrOne ==
    [][last'.op = "worker_exit" =>
          \E p \in DOMAIN proc :
              /\ proc[p] = "run" /\ proc'[p] # "run"
              /\ last'.handler = "return" => ExitCodeOf(proc'[p]) = 0
              /\ last'.handler \in {"exit", "raise"} => ExitCodeOf(proc'[p]) = 1
      ]_vars

\* the signals the last operation's Instance.stop calls sent to process p
StopSignalsTo(p) ==
    {x \in 1 .. Len(last.stop_signals) : last.stop_signals[x].pid = p}

\* C22: Instance.stop() on a running instance sends one SIGTERM and nothing
\* else, and returns after at most StopPolls polls.  When the worker is still
\* alive after the last poll the call returns False, the pid is kept and the
\* stopped-callback is not made; when the worker is gone the call returns True,
\* the pid is cleared and the callback has removed the instance once from
\* Service.__instances.
C22_StopOfRunningInstance ==
    [][\A i \in last'.stop_called :
           Alive(i) =>
               LET p == inst[i].pid
                   s == inst[i].service
                   sent == {x \in 1 .. Len(last'.stop_signals) :
                               last'.stop_signals[x].pid = inst[i].pid}
               IN  /\ Cardinality(sent) = 1
                   /\ \A x \in sent : last'.stop_signals[x].sig = "SIGTERM"
                   /\ i \in last'.stop_true <=> proc'[p] # "run"
                   /\ i \in last'.stop_true =>
                          /\ inst'[i].pid = None
                          /\ Count(svc_instances'[s], i) =
                                 Count(svc_instances[s], i) - 1
                   /\ i \notin last'.stop_true =>
                          /\ inst'[i].pid = p
                          /\ Count(svc_instances'[s], i) =
                                 Count(svc_instances[s], i)
      ]_vars

\* one Pool.stop has stopped a running instance whose worker left and has
\* given up on another whose worker ignores the SIGTERM
C22_Witness ==
    /\ \E i \in last.stop_true :
           /\ inst[i].pid = None
           /\ \E x \in 1 .. Len(last.stop_signals) :
                  proc[last.stop_signals[x].pid] = "gone"
    /\ \E i \in last.stop_called \ last.stop_true :
           /\ Alive(i)
           /\ StopSignalsTo(inst[i].pid) # {}

\* Pool.start is about to call Service.start of service s
AboutToStart(s) ==
    /\ pc = "start"
    /\ Skip(si, k)[1] <= Len(pool_services)
    /\ pool_services[Skip(si, k)[1]].service = s

\* C23: Service.start() returns the new Instance exactly when a poll of
\* Instance.start() found the child alive, and then the instance is appended
\* to Service.__instances; when the fork fails or no poll finds the child
\* alive it returns None and Service.__instances is as it was.
C23_RegisteredIffStarted ==
    \A s \in Services, o \in Outcomes :
        AboutToStart(s) =>
            LET m1 == ServiceStart(M, s, o)
                i == Len(inst) + 1
            IN  /\ m1.ret <=> i \in m1.log.alive
                /\ m1.ret <=> (o = "ok" /\ next_pid \in DOMAIN proc)
                /\ m1.ret => m1.svc_instances =
                                 [svc_instances EXCEPT ![s] = Append(@, i)]
                /\ ~ m1.ret => m1.svc_instances = svc_instances

\* Service.start has returned None for the second instance of the call, whose
\* child was forked and not found alive; the instance is in no list
C23_Witness ==
    /\ last.op = "start" /\ ~ last.ret
    /\ Len(inst) = 2
    /\ 2 \in last.forked \ last.alive
    /\ \A s \in Services : 2 \notin Range(svc_instances[s])

\* Daemon.stop is under way
DaemonStopping == dpc \in {"stop", "kill"}

\* C24: Daemon.stop() terminates: it sends SIGTERM and polls until the process
\* is gone or a bounded number of retries is used up, and then returns, with
\* False when the process is still alive.
C24_DaemonStopReturns == DaemonStopping ~> dpc = "idle"

\* Daemon.stop() sends the signal only to a process it has just found alive,
\* and returns at once when it finds the process gone at the loop test
StopReturnsOnceGone ==
    [][(dpc = "stop" /\ ~ ProcExists(dpid) /\ dpc' # dpc) =>
           (dpc' = "idle" /\ last'.op = "daemon_stop" /\ last'.ret)]_vars

\* the daemon processes that are alive
DaemonsAlive == {p \in DOMAIN proc : proc[p] = "run"}

\* C25: when a detached Daemon.start() has returned True the pid file exists,
\* holds the pid of a daemon process and is_running() is true; when
\* Daemon.stop() has returned True no daemon runs and there is no pid file.
C25_PidFileFollowsDaemon ==
    /\ (last.op = "daemon_start" /\ last.ret) =>
           /\ pidfile # 0
           /\ pidfile \in DaemonsAlive \ dchild
           /\ DaemonIsRunning
    /\ (last.op = "daemon_stop" /\ last.ret) =>
           /\ DaemonsAlive = {}
           /\ pidfile = 0

\* the first half of C25: Daemon.start() returns True only with a pid file
\* that names a live daemon process
StartedDaemonHasPidFile ==
    (last.op = "daemon_start" /\ last.ret) =>
        /\ pidfile # 0
        /\ pidfile \in DaemonsAlive \ dchild
        /\ DaemonIsRunning

\* what Daemon.stop() does for the process the pid file named: when it returns
\* True after the loop, that process is gone and the file is removed
StopRemovesNamedDaemon ==
    [][(DaemonStopping /\ last'.op = "daemon_stop") =>
           /\ pidfile' = 0
           /\ last'.ret <=> ~ ProcExists(dpid)]_vars

\* C26: Daemon.start() in detached mode, called while the pid file names a
\* live process, returns True without a fork and leaves the pid file as it is;
\* called while the pid file names a dead process it does not return that
\* success but goes on to the fork of a new daemon.
C26_StartIsNoOpWhenRunning ==
    [][(dpc = "idle" /\ last'.op \in {"daemon_start", "daemon_fork"}) =>
           /\ (pidfile # 0 /\ ProcExists(pidfile)) =>
                  /\ last'.op = "daemon_start" /\ last'.ret
                  /\ dpc' = "idle"
                  /\ proc' = proc /\ next_pid' = next_pid
                  /\ pidfile' = pidfile /\ dchild' = dchild
           /\ (pidfile # 0 /\ ~ ProcExists(pidfile)) =>
                  /\ ~ (last'.op = "daemon_start" /\ last'.ret)
                  /\ last'.op = "daemon_fork" => dpc' = "poll"
                  /\ next_pid' # next_pid =>
                         proc'[next_pid] = "run" /\ next_pid \in dchild'
      ]_vars

\* a start has found the second daemon running and done nothing; the pid file
\* that named the dead first daemon was not trusted before
C26_Witness ==
    /\ last.op = "daemon_start" /\ last.ret
    /\ last.alive = {2}
    /\ pidfile = 2 /\ proc[2] = "run" /\ proc[1] = "gone"

\* a start is at its fork while the pid file still names a dead daemon
StaleFileNotTrusted ==
    /\ last.op = "daemon_fork"
    /\ pidfile # 0 /\ proc[pidfile] = "gone"
    /\ dchild # {}

\* the worker of instance i has exited with code 1 and is not yet reaped
ExitedWithError(i) == inst[i].pid > 0 /\ proc[inst[i].pid] = "z1"

\* C27: when handler.start() raises an error in a worker, handler.stop() is
\* called and the worker exits with a code that is not 0; and the child-death
\* handler of a pool that is not stopped calls Instance.start() for every
\* tracked instance whose worker has exited that way.
C27_HandlerErrorLeadsToRestart ==
    /\ [][(last'.op = "worker_exit" /\ last'.handler = "raise") =>
              /\ last'.handler_stop
              /\ \E p \in DOMAIN proc :
                     /\ proc[p] = "run"
                     /\ proc'[p] \in Zombies
                     /\ ExitCodeOf(proc'[p]) \notin {0, None}
         ]_vars
    /\ [][(last'.op = "sigchld" /\ ~ stopped) =>
              \A x \in Slots :
                  ExitedWithError(pool_instances[x]) =>
                      /\ pool_instances[x] \in last'.started
                      /\ inst'[pool_instances[x]].exit_code = 1
         ]_vars

\* the child-death handler has restarted an instance whose worker had exited
\* with code 1: a new worker runs for it
C27_Witness ==
    /\ last.op = "sigchld"
    /\ ~ stopped
    /\ \E x \in Slots :
           /\ pool_instances[x] \in last.started \cap last.alive
           /\ inst[pool_instances[x]].exit_code = 1
           /\ inst[pool_instances[x]].pid = 2
           /\ proc[1] = "gone" /\ proc[2] = "run"

\* the tracked instances that are dead after an abnormal end: not running,
\* and the exit status held for them is not the code 0
DeadAbnormally ==
    {x \in Slots : /\ ~ Alive(pool_instances[x])
                   /\ ObservedCode(pool_instances[x]) # 0}

\* C28: one invocation of the child-death handler of a pool that is not
\* stopped calls Instance.start() for every tracked instance that is dead
\* after an abnormal end at that time, however many there are and whether or
\* not the restart of another one has failed.
C28_EveryDeathInOneInvocation ==
    [][(last'.op = "sigchld" /\ ~ stopped) =>
           \A x \in DeadAbnormally : pool_instances[x] \in last'.started
      ]_vars

\* one invocation has found two instances dead: the restart of the first one
\* failed and the second one, later in the list, runs again
C28_Witness ==
    /\ last.op = "sigchld"
    /\ \E x, y \in Slots :
           /\ x < y
           /\ pool_instances[x] \in last.started \ last.alive
           /\ pool_instances[y] \in last.started \cap last.alive
           /\ Alive(pool_instances[y])

\* C29: when the SIGTERM of a stop cannot be delivered because there is no
\* such process, Instance.stop() returns True, the pid is cleared and the
\* stopped-callback has been made; when it cannot be delivered for lack of
\* permission, Instance.stop() returns False.
C29_NoSuchProcessIsStopped ==
    (last.op = "instance_stop" /\ last.kill_error # "none") =>
        \A i \in last.stop_called :
            /\ last.kill_error = "ESRCH" =>
                   /\ last.ret
                   /\ inst[i].pid = None
                   /\ i \notin Range(svc_instances[inst[i].service])
            /\ last.kill_error = "EPERM" => ~ last.ret

\* what Instance.stop() does when the kill fails, for either error: it
\* returns False and leaves the instance as it is
KillErrorMeansFalse ==
    (last.op = "instance_stop" /\ last.kill_error # "none") =>
        /\ ~ last.ret
        /\ \A i \in last.stop_called : inst[i].pid > 0

\* the Daemon half of C29: a Daemon.stop() whose kill fails returns True for
\* ESRCH and False for EPERM
DaemonStopOnKillError ==
    (last.op = "daemon_stop" /\ last.kill_error # "none") =>
        (last.ret <=> last.kill_error = "ESRCH")

\* a Daemon.stop() has met each of the two errors
DaemonKillFailed ==
    last.op = "daemon_stop" /\ last.kill_error = "ESRCH"

\* a child-death signal arrived while accept() waited for an instance
AcceptInterrupted == last.interrupted # 0

\* the places of the list that come after the interrupted one and hold a
\* running instance
RemainingAfterInterrupt ==
    {x \in Slots : x > last.interrupted /\ Alive(pool_instances[x])}

\* C30: a signal that interrupts the accept on the internal socket while
\* collect_reports waits for a worker does not fail the collection: the
\* document says success and the instances that come after the interrupted
\* one are still asked for their report.
C30_InterruptDoesNotFailCollection ==
    AcceptInterrupted =>
        /\ doc.success
        /\ \A x \in RemainingAfterInterrupt :
               pool_instances[x] \in last.report_called

\* what the code does: an interrupted accept ends the collection with the
\* failure document, the handler having run and the socket being closed
InterruptFailsCollection ==
    AcceptInterrupted =>
        /\ CollectionFailed
        /\ doc = FailureDoc
        /\ last.incoming_sock = "closed"
        /\ ~ sigchld

\* the answer of one instance could not be received or parsed
AnswerUnparsable == last.unparsable # 0

\* the instances whose report request succeeded and whose answer arrived, the
\* one with the unparsable answer excepted
AnsweredWell ==
    {i \in last.report_true \ last.timed_out :
        i # pool_instances[last.unparsable]}

\* C31: during collect_reports an unparsable or truncated payload of one
\* instance affects only the entry of that instance: the document is still a
\* success document and holds the entries of the other instances.
C31_BadPayloadIsConfined ==
    AnswerUnparsable =>
        /\ doc.success
        /\ "instances" \in DOMAIN doc
        /\ \A i \in AnsweredWell : NameOf(M, i) \in EntryNames

\* what the code does: the error of json.loads leaves the for loop, the
\* entries gathered so far are dropped and the failure document is returned
BadPayloadFailsCollection ==
    AnswerUnparsable =>
        /\ CollectionFailed
        /\ doc = FailureDoc
        /\ last.incoming_sock = "closed"

\* an unparsable answer came after the answer of another instance had been
\* received
BadPayloadAfterGoodOne == AnswerUnparsable /\ AnsweredWell # {}

\* a connection was accepted on the public socket and the turn of the loop
\* that served it is over
ConnectionServed == last.op \in {"collect", "collect_failed"}

\* C32: while serving with the report protocol, every connection accepted on
\* the public socket triggers one collect_reports, receives the complete
\* document and is then closed by the pool.
C32_ClientGetsWholeDocument ==
    ConnectionServed =>
        /\ ~ last.raised
        /\ last.client_got = DocText(doc)
        /\ last.client = "closed"

\* what the code does when no call raises: the send loop delivers every
\* piece of the document of this collection, however the sends cut it, and
\* the connection is closed
SendLoopDeliversAll ==
    (ConnectionServed /\ last.client = "closed") =>
        /\ ~ last.raised
        /\ last.client_got = DocText(doc)

\* a client was left with a part of the document on an open connection
ClientLeftWithPart ==
    /\ ConnectionServed
    /\ last.client = "open"
    /\ last.client_got # <<>>
    /\ last.client_got # DocText(doc)

\* the worker of the report under way
WorkerPid == inst[1].pid

\* the value under 'stopped' in the message the worker builds
PayloadStopped == payload.dict[2][2].bool

\* the worker leaves the running state by exiting (not by a fatal signal)
WorkerExits == proc[WorkerPid] = "run" /\ proc'[WorkerPid] \in {"z0", "z1"}

\* the worker builds and starts to send a report
ReportBuilt == conn = "none" /\ conn' \in {"open", "unsent"}

SendFailure == conn' # conn /\ conn' \in {"unsent", "dropped"}

\* C34: a connect or write failure while a worker sends its report is
\* dropped inside the report-request handler: it does not reach
\* handler.start(), the worker keeps running and its exit code is not
\* affected.
C34_SendFailureIsDropped ==
    [][SendFailure =>
          /\ ctx.state = "start"
          /\ ctx' = ctx
          /\ proc' = proc
          /\ proc[WorkerPid] = "run"
          /\ sigchld' = sigchld]_vars

\* a worker whose send failed went on and ended later with exit code 0,
\* when handler.start() returned
C34_Witness ==
    /\ conn = "dropped"
    /\ ctx.event = "ended"
    /\ ctx.code = 0
    /\ proc[WorkerPid] = "z0"

\* a step in which worker processes are forked
Forks == last'.forked # {}

\* C35: once the pool's stopped flag is set, no worker process is forked
\* until Pool.start() is called again (the call of Pool.start clears the
\* flag before it forks).
C35_NoForkWhileStopped ==
    [][stopped => ~ Forks]_vars

\* what holds in the code: outside a running Pool.start() nothing is forked
\* while the flag is set; the child-death handler tests the flag
NoForkWhileStoppedOutsideStart ==
    [][(stopped /\ pc \notin {"start", "append"}) => ~ Forks]_vars

\* C36: in every aggregate report the payload stored under the name of an
\* instance was sent by the worker of that instance: the name inside the
\* payload is the name it is stored under.
C36_EntryIsFromItsInstance ==
    last.op = "collect" =>
        \A e \in doc.instances : e.payload_name = e.name

\* what holds in the code: when no worker answers after its wait has timed
\* out, every payload is stored under the name of its sender
EntryIsFromItsInstanceUnlessLate ==
    (last.op = "collect" /\ last.late = {}) =>
        \A e \in doc.instances : e.payload_name = e.name

\* C37: after any sequence of starts, stops, deaths and restarts by the
\* death handler, Service.instances() holds each Instance at most once, so
\* that the number of entries of a service is the number of distinct
\* instances it lists.
C37_ListedAtMostOnce ==
    \A s \in Services :
        /\ \A i \in DOMAIN inst : Count(svc_instances[s], i) <= 1
        /\ Len(svc_instances[s]) = Cardinality(Range(svc_instances[s]))

\* the instances of the service attached in place x whose worker is alive
LiveWorkers(x) ==
    {i \in InstancesOf(pool_services[x].service) : Alive(i)}

\* an instance that a Pool.stop() has stopped: its pid was cleared
StoppedByPool(i) == inst[i].pid = None

\* C38: at every moment the number of live workers of a service is at most
\* the desired count of that service, and the death handler does not start
\* an instance that an earlier Pool.stop() has stopped.
C38_LiveWithinDesired ==
    /\ [](\A x \in 1 .. Len(pool_services) :
             Cardinality(LiveWorkers(x)) <= Desired(x))
    /\ [][last'.op = "sigchld" =>
              \A i \in last'.started : ~ StoppedByPool(i)]_vars

\* the first half alone
LiveWithinDesired ==
    \A x \in 1 .. Len(pool_services) :
        Cardinality(LiveWorkers(x)) <= Desired(x)

\* the second half alone
StoppedInstanceNotRevived ==
    [][last'.op = "sigchld" =>
          \A i \in last'.started : ~ StoppedByPool(i)]_vars

\* what holds in the code: while Pool.start() was called once and the pool
\* was not restarted, the live workers stay within the desired count
LiveWithinDesiredInFirstRun ==
    starts <= 1 => LiveWithinDesired

\* the child-death handler sets the stopped flag
DeathHandlerStops == last'.op = "sigchld" /\ ~ stopped /\ stopped'

\* C39: the child-death handler marks the pool stopped only when the pool
\* tracks instances and no worker spawned by the pool is alive (a signal
\* handled while the pool tracks no instance does not stop it), and
\* Pool.start() never returns true with the stopped flag set.
C39_StopsOnlyWhenWorkersDead ==
    /\ [][DeathHandlerStops =>
              /\ pool_instances # <<>>
              /\ \A i \in DOMAIN inst' : ~ Alive(i)']_vars
    /\ []((last.op = "start" /\ last.ret) => ~ stopped)

\* the first half alone
StopsOnlyWhenTracking ==
    [][DeathHandlerStops => pool_instances # <<>>]_vars

\* the second half alone
StartTrueMeansNotStopped == (last.op = "start" /\ last.ret) => ~ stopped

\* what holds in the code: the handler stops the pool only when none of the
\* instances the pool tracks is running
StopsOnlyWhenTrackedDead ==
    [][DeathHandlerStops =>
          \A x \in Slots : ~ Alive(pool_instances[x])']_vars

====
